---- MODULE Spec2Model ----
(***************************************************************************)
(* playwright-relay: the dependency scheduler (relay), the result store   *)
(* and the dependency graph, as state machines.                           *)
(*                                                                         *)
(* Strings that the code takes apart (test keys, file paths) are modelled *)
(* as sequences of atoms: a key such as "f.spec.ts > [s] d" is            *)
(* <<"f.spec.ts", ">", "[s]", "d">>.  One action of the scheduler is one   *)
(* synchronous run of JavaScript between two awaits.                      *)
(***************************************************************************)
EXTENDS Integers, Sequences, FiniteSets, TLC

VARIABLES
    config,             \* relay.ts `config` (onDependencyFailure)
    testRegistry,       \* relay.ts `testRegistry`: key -> declared dependency keys
    currentFile,        \* the file the relay was created for (createRelay(currentFile))
    results,            \* ResultStore.results: insertion-ordered Map, as a sequence of entries
    pendingExecutions,  \* ResultStore.pendingExecutions: key -> execution handle
    execs,              \* every promise created by executeTest's inner async function
    callers,            \* the top-level require/rerun calls and their suspended frames
    hist,               \* what has happened so far (counters used by guards and properties)
    nodes,              \* DependencyGraph.nodes: insertion-ordered ids
    edges,              \* DependencyGraph.edges: id -> insertion-ordered dependency ids
    reverseEdges,       \* DependencyGraph.reverseEdges
    verdict,            \* what the last graph query returned or threw
    reply,              \* what the last read of the relay or the store returned or threw
    useSharedStore,     \* ResultStore.useSharedStore
    sharedStore,        \* the entries of the file at ResultStore.sharedStorePath (none: no file)
    run                 \* the test the host runner is running through the relay fixture

schedVars == <<config, testRegistry, currentFile, results, pendingExecutions, execs, callers, hist>>
graphVars == <<nodes, edges, reverseEdges, verdict>>
queryVars == <<reply>>
fileVars == <<useSharedStore, sharedStore>>
runVars == <<run>>
vars == <<config, testRegistry, currentFile, results, pendingExecutions, execs, callers, hist,
          nodes, edges, reverseEdges, verdict, reply, useSharedStore, sharedStore, run>>

----------------------------------------------------------------------------
(* Bounds *)

MaxExecs == 3       \* task bodies invoked in one behaviour
MaxExt == 1         \* storeTestResult / clearResults calls from outside the scheduler
MaxGraphOps == 5    \* addTest / addDependency calls in one behaviour
MaxStoreOps == 2    \* storeTestResult calls before the store is read
MaxDepth == 4       \* nested executeTest calls followed in one chain
MaxRuns == 3        \* tests the host runner runs in one behaviour

----------------------------------------------------------------------------
(* Keys and payloads *)

SpecFiles == {"f.spec.ts"}
Seps == {">"}

kA == <<"a">>
kD == <<"d">>
kE == <<"e">>
kU == <<"u">>
kFD == <<"f.spec.ts", ">", "d">>
kFSD == <<"f.spec.ts", ">", "[s]", "d">>
kFXD == <<"f.spec.ts", ">", "[x]", "d">>
kSD == <<"[s]", "d">>
kSFD == <<"[s]", "f.spec.ts", ">", "d">>

NoFile == <<>>
Undef == [src |-> "undefined", n |-> 0]
BodyPayload(n) == [src |-> "body", n |-> n]
ExtPayload == [src |-> "external", n |-> 0]

Last(s) == s[Len(s)]

IsSuffix(t, s) ==
    /\ Len(t) <= Len(s)
    /\ SubSeq(s, Len(s) - Len(t) + 1, Len(s)) = t

Includes(s, t) ==
    \E i \in 1..(Len(s) + 1) :
        /\ i + Len(t) - 1 <= Len(s)
        /\ SubSeq(s, i, i + Len(t) - 1) = t

MaxOf(S) == CHOOSE x \in S : \A y \in S : y <= x

\* CROSS_FILE_REGEX = /^(.+\.spec\.[tj]s)\s*>\s*(.+)$/ : the first group is
\* greedy, so the separator used is the last one that follows a spec file
\* name and is followed by a non-empty title.
parseTestKey(key) ==
    LET cuts == {i \in 1..Len(key) :
                    /\ i + 2 <= Len(key)
                    /\ key[i] \in SpecFiles
                    /\ key[i + 1] \in Seps}
    IN  IF cuts = {}
        THEN [hasFile |-> FALSE, file |-> <<>>, testTitle |-> key]
        ELSE LET i == MaxOf(cuts)
             IN  [hasFile |-> TRUE,
                  file |-> SubSeq(key, 1, i),
                  testTitle |-> SubSeq(key, i + 2, Len(key))]

normalizeKey(key, file) ==
    LET p == parseTestKey(key)
    IN  IF p.hasFile
        THEN <<key, p.file \o <<">">> \o p.testTitle, p.testTitle>>
        ELSE IF file # NoFile
             THEN <<key, <<Last(file)>> \o <<">">> \o p.testTitle>>
             ELSE <<key>>

----------------------------------------------------------------------------
(* ResultStore: a Map keeps insertion order; set() on a present key keeps
   its position, delete() removes the entry. *)

StoreKeys(res) == [i \in 1..Len(res) |-> res[i].key]

StoreHas(res, k) == \E i \in 1..Len(res) : res[i].key = k

StoreIndex(res, k) == CHOOSE i \in 1..Len(res) : res[i].key = k

StoreGet(res, k) == res[StoreIndex(res, k)]

StoreGetStatus(res, k) == IF StoreHas(res, k) THEN StoreGet(res, k).status ELSE "pending"

StoreGetData(res, k) == IF StoreHas(res, k) THEN StoreGet(res, k).data ELSE Undef

StoreSet(res, k, status, data, error) ==
    LET e == [key |-> k, status |-> status, data |-> data, error |-> error]
    IN  IF StoreHas(res, k)
        THEN [res EXCEPT ![StoreIndex(res, k)] = e]
        ELSE Append(res, e)

StoreDeleteResult(res, k) ==
    IF StoreHas(res, k)
    THEN LET i == StoreIndex(res, k)
         IN  SubSeq(res, 1, i - 1) \o SubSeq(res, i + 1, Len(res))
    ELSE res

SetPending(pend, k, h) == [x \in (DOMAIN pend) \cup {k} |-> IF x = k THEN h ELSE pend[x]]

RemovePending(pend, k) == [x \in (DOMAIN pend) \ {k} |-> pend[x]]

NoPending == [x \in {} |-> 0]

----------------------------------------------------------------------------
(* Key resolver *)

MinOf(S) == CHOOSE x \in S : \A y \in S : x <= y

NotFound == [found |-> FALSE, data |-> Undef, status |-> "pending"]

Lookup(res, k) == [found |-> TRUE, data |-> StoreGetData(res, k), status |-> StoreGetStatus(res, k)]

\* A resolver without the fuzzy fallback.
FuzzyMatchesNever(storedKey, p) == FALSE

FuzzyMatches(storedKey, p) ==
    LET parsed == parseTestKey(storedKey)
    IN  \/ /\ parsed.hasFile
           /\ parsed.file = p.file
           /\ IsSuffix(p.testTitle, parsed.testTitle)
        \/ /\ Includes(storedKey, p.file)
           /\ IsSuffix(p.testTitle, storedKey)

\* A lookup that prefers the last candidate key present to the first.
FoundKeyLast(res, key, file) ==
    LET cands == normalizeKey(key, file)
        hits == {j \in 1..Len(cands) : StoreHas(res, cands[j])}
        p == parseTestKey(key)
        fuzzy == {i \in 1..Len(res) : FuzzyMatches(res[i].key, p)}
    IN  IF hits # {}
        THEN <<cands[MaxOf(hits)]>>
        ELSE IF p.hasFile /\ p.testTitle # <<>> /\ fuzzy # {}
             THEN <<res[MinOf(fuzzy)].key>>
             ELSE <<>>

\* The stored key whose record the lookup returns: <<k>>, or <<>> for none.
FoundKey(res, key, file) ==
    LET cands == normalizeKey(key, file)
        hits == {j \in 1..Len(cands) : StoreHas(res, cands[j])}
        p == parseTestKey(key)
        fuzzy == {i \in 1..Len(res) : FuzzyMatches(res[i].key, p)}
    IN  IF hits # {}
        THEN <<cands[MinOf(hits)]>>
        ELSE IF p.hasFile /\ p.testTitle # <<>> /\ fuzzy # {}
             THEN <<res[MinOf(fuzzy)].key>>
             ELSE <<>>

findResultWithFuzzyMatch(res, key, file) ==
    IF FoundKey(res, key, file) = <<>>
    THEN NotFound
    ELSE Lookup(res, FoundKey(res, key, file)[1])

findResult(res, key, file) == findResultWithFuzzyMatch(res, key, file)

----------------------------------------------------------------------------
(* Scheduler: frames of suspended async calls *)

\* How a promise settles: with a value, or with an error object.  `h` names
\* the execution whose catch block saw the error first (0: thrown outside one),
\* so that two error objects with the same message stay distinct.
NoOut == [kind |-> "none", data |-> Undef, err |-> "none", h |-> 0]
Value(d) == [kind |-> "value", data |-> d, err |-> "none", h |-> 0]
Error(e, h) == [kind |-> "error", data |-> Undef, err |-> e, h |-> h]

\* One executeTest call.  pc:
\*   "deps"  - inside executeDependencies, awaiting executeTest of dependency i
\*   "start" - executeDependencies has finished; suspended at `await executeDependencies`
\*   "await" - returned the promise h (its own or the pending one)
\*   "ret"   - returned or threw `out` from the cached-result branch, or
\*             executeDependencies threw `out`
\*   "enter" - called below MaxDepth other calls; the chain is not followed further
Frame(key, pc, i, h, out) == [key |-> key, pc |-> pc, i |-> i, h |-> h, out |-> out]

Top(stk) == stk[Len(stk)]
Pop(stk) == SubSeq(stk, 1, Len(stk) - 1)
SetTop(stk, f) == [stk EXCEPT ![Len(stk)] = f]

\* A scheduler that rethrows whatever the configuration says.
PolicyAlwaysFail == "fail"

Policy == config.onDependencyFailure

RECURSIVE Reversed(_)
Reversed(q) == IF q = <<>> THEN <<>> ELSE Append(Reversed(Tail(q)), Head(q))

\* The declared dependencies taken last to first.
DeclaredReversed(key) == Reversed(testRegistry[key])

\* `deps`: the dependencies of a registered task, in declared order.
Declared(key) == testRegistry[key]

RECURSIVE executeDependencies(_, _, _, _, _)
RECURSIVE executeTest(_, _, _, _)

\* executeTest without its first two lines: a pending handle is not reused.
executeTestNoPending(key, stk, res, pend) ==
    IF StoreHas(res, key) /\ StoreGetStatus(res, key) = "passed"
    THEN Append(stk, Frame(key, "ret", 0, 0, Value(StoreGetData(res, key))))
    ELSE IF StoreHas(res, key) /\ StoreGetStatus(res, key) = "failed"
    THEN IF Policy = "fail"
         THEN Append(stk, Frame(key, "ret", 0, 0, Error("previously failed", 0)))
         ELSE Append(stk, Frame(key, "ret", 0, 0, Value(Undef)))
    ELSE executeDependencies(Append(stk, Frame(key, "deps", 1, 0, NoOut)), 1, 1, res, pend)

\* executeTest without the cached-result branch.
executeTestNoCache(key, stk, res, pend) ==
    IF key \in DOMAIN pend
    THEN Append(stk, Frame(key, "await", 0, pend[key], NoOut))
    ELSE executeDependencies(Append(stk, Frame(key, "deps", 1, 0, NoOut)), 1, 1, res, pend)

\* The synchronous part of executeTest(key, ...) called with `stk` suspended
\* below it: runs until the first await that has to wait, and returns the
\* stack of suspended frames.  It reads the store and writes nothing.
executeTest(key, stk, res, pend) ==
    IF Len(stk) >= MaxDepth
    THEN Append(stk, Frame(key, "enter", 0, 0, NoOut))
    ELSE IF key \in DOMAIN pend
    THEN Append(stk, Frame(key, "await", 0, pend[key], NoOut))
    ELSE IF StoreHas(res, key) /\ StoreGetStatus(res, key) = "passed"
    THEN Append(stk, Frame(key, "ret", 0, 0, Value(StoreGetData(res, key))))
    ELSE IF StoreHas(res, key) /\ StoreGetStatus(res, key) = "failed"
    THEN IF Policy = "fail"
         THEN Append(stk, Frame(key, "ret", 0, 0, Error("previously failed", 0)))
         ELSE Append(stk, Frame(key, "ret", 0, 0, Value(Undef)))
    ELSE executeDependencies(Append(stk, Frame(key, "deps", 1, 0, NoOut)), 1, 1, res, pend)

\* A dependency that was not found ends executeDependencies with an error.
NotExecutedThrows(stk, i, res, pend) ==
    SetTop(stk, [Top(stk) EXCEPT !.pc = "ret", !.i = i, !.out = Error("not found", 0)])

\* `if (!executed) console.warn(...)`: the loop goes on with the next
\* declared dependency.
NotExecuted(stk, i, res, pend) == executeDependencies(stk, i + 1, 1, res, pend)

\* executeDependencies that resolves at once, running and probing nothing.
executeDependenciesNone(stk, i, j, res, pend) ==
    SetTop(stk, [Top(stk) EXCEPT !.pc = "start"])

\* The loop of executeDependencies for the top frame of stk, at declared
\* dependency i and candidate key j.
executeDependencies(stk, i, j, res, pend) ==
    LET f == Top(stk)
        deps == Declared(f.key)
    IN  IF i > Len(deps)
        THEN SetTop(stk, [f EXCEPT !.pc = "start", !.i = i])
        ELSE LET cands == normalizeKey(deps[i], currentFile)
             IN  IF j > Len(cands)
                 THEN NotExecuted(stk, i, res, pend)
                 ELSE LET key == cands[j]
                      IN  IF StoreHas(res, key)
                          THEN IF StoreGetStatus(res, key) = "failed" /\ Policy = "fail"
                               THEN SetTop(stk, [f EXCEPT !.pc = "ret", !.i = i,
                                                          !.out = Error("dependency failed", 0)])
                               ELSE executeDependencies(stk, i + 1, 1, res, pend)
                          ELSE IF key \in DOMAIN testRegistry
                               THEN executeTest(key, SetTop(stk, [f EXCEPT !.pc = "deps", !.i = i]),
                                                res, pend)
                               ELSE executeDependencies(stk, i, j + 1, res, pend)

----------------------------------------------------------------------------
(* Top-level calls *)

\* The top-level require/rerun calls of one behaviour: two, so that two calls
\* can overlap and a call can follow a settled one.
Slots == {1, 2}

\* execs0, snap and raced record what the call saw when it started: the number
\* of executions so far, the record findResult(ref) returned, and whether
\* another call for the same key had not yet resumed from its first await.
NoSnap == [status |-> "none", key |-> <<>>]

Idle == [st |-> "idle", op |-> "none", ref |-> <<>>, key0 |-> <<>>, stack |-> <<>>,
         result |-> NoOut, execs0 |-> 0, snap |-> NoSnap, raced |-> FALSE]

Registries ==
    { (kA :> <<kD>>) @@ (kD :> <<>>),
      (kA :> <<kFD>>) @@ (kFSD :> <<>>) }

\* References the callers use: the registered keys, and the unprefixed form of
\* a registered key whose title carries a prefix.
TestRefs == (DOMAIN testRegistry) \cup {r \in {kFD} : kFSD \in DOMAIN testRegistry}
ExtKeys == {kD}
ExtStatuses == {"passed", "failed"}

Active(c) == callers[c].st = "active"

\* Another call for the same key is suspended before its first await has
\* resumed: it has passed the pending and cache checks of executeTest and has
\* not yet reached `resultStore.set(key, 'running')`.
BeforeRunning(c, key) ==
    /\ Active(c)
    /\ callers[c].key0 = key
    /\ callers[c].stack[1].pc \in {"deps", "start"}

DeleteAll(res, ks) ==
    LET RECURSIVE Del(_, _)
        Del(r, i) == IF i > Len(ks) THEN r ELSE Del(StoreDeleteResult(r, ks[i]), i + 1)
    IN  Del(res, 1)

RemoveAllPending(pend, ks) == [x \in (DOMAIN pend) \ {ks[i] : i \in 1..Len(ks)} |-> pend[x]]

\* createRelay(currentFile).require(ref), run against the store (res, pend).
RequireOn(c, op, ref, res, pend) ==
    LET r == findResult(res, ref, currentFile)
        cands == normalizeKey(ref, currentFile)
        regs == {j \in 1..Len(cands) : cands[j] \in DOMAIN testRegistry}
        key == cands[MinOf(regs)]
        base == [Idle EXCEPT !.op = op, !.ref = ref, !.execs0 = Len(execs),
                             !.snap = IF findResult(results, ref, currentFile).found
                                      THEN [status |-> findResult(results, ref, currentFile).status,
                                            key |-> FoundKey(results, ref, currentFile)[1]]
                                      ELSE NoSnap]
    IN  /\ callers' = [callers EXCEPT ![c] =
              IF r.found /\ r.status = "passed"
              THEN [base EXCEPT !.st = "done", !.result = Value(r.data)]
              ELSE IF regs # {}
              THEN [base EXCEPT !.st = "active", !.key0 = key,
                                !.stack = executeTest(key, <<>>, res, pend),
                                !.raced = /\ ~StoreHas(res, key)
                                          /\ key \notin DOMAIN pend
                                          /\ \E o \in Slots \ {c} : BeforeRunning(o, key)]
              ELSE [base EXCEPT !.st = "done", !.result = Error("not found", 0)]]
        /\ hist' = [hist EXCEPT !.overlap = @ \/ \E o \in Slots \ {c} : Active(o),
                                !.reruns = @ \/ op = "rerun"]

FreeSlot == MinOf({c \in Slots : callers[c].st = "idle"})

Require(ref) ==
    /\ \E c \in Slots : callers[c].st = "idle"
    /\ RequireOn(FreeSlot, "require", ref, results, pendingExecutions)
    /\ UNCHANGED <<config, testRegistry, currentFile, results, pendingExecutions, execs>>
    /\ UNCHANGED <<graphVars, runVars, queryVars, fileVars>>

Rerun(ref) ==
    /\ \E c \in Slots : callers[c].st = "idle"
    /\ LET ks == normalizeKey(ref, currentFile)
           res == DeleteAll(results, ks)
           pend == RemoveAllPending(pendingExecutions, ks)
       IN  /\ results' = res
           /\ pendingExecutions' = pend
           /\ RequireOn(FreeSlot, "rerun", ref, res, pend)
    /\ UNCHANGED <<config, testRegistry, currentFile, execs>>
    /\ UNCHANGED <<graphVars, runVars, queryVars, fileVars>>

----------------------------------------------------------------------------
(* Execution of a task body *)

\* executeTest resumes after `await executeDependencies`: marks the key
\* running, calls fn() inside the inner async function, registers the promise.
StartBody(c) ==
    /\ Active(c)
    /\ Top(callers[c].stack).pc = "start"
    /\ Len(execs) < MaxExecs
    /\ LET f == Top(callers[c].stack)
           h == Len(execs) + 1
       IN  /\ results' = StoreSet(results, f.key, "running", Undef, "none")
           /\ execs' = Append(execs, [key |-> f.key, st |-> "inflight", out |-> NoOut,
                                      why |-> "none", body |-> "running"])
           /\ pendingExecutions' = SetPending(pendingExecutions, f.key, h)
           /\ callers' = [callers EXCEPT ![c].stack =
                              SetTop(@, [f EXCEPT !.pc = "await", !.h = h])]
    /\ UNCHANGED <<config, testRegistry, currentFile, hist>>
    /\ UNCHANGED <<graphVars, runVars, queryVars, fileVars>>

InFlight(h) == h \in 1..Len(execs) /\ execs[h].st = "inflight"

\* A catch block that records the failure but leaves the pending handle.
CaughtKeepPending(h, e) ==
    /\ results' = StoreSet(results, execs[h].key, "failed", Undef, e)
    /\ pendingExecutions' = pendingExecutions

\* The catch block of the inner async function.
Caught(h, e) ==
    /\ results' = StoreSet(results, execs[h].key, "failed", Undef, e)
    /\ pendingExecutions' = RemovePending(pendingExecutions, execs[h].key)

\* The catch block always swallows the error.
FailedSwallowed(h, e) == [st |-> "resolved", out |-> Value(Undef)]

Failed(h, e) ==
    IF Policy = "fail" THEN [st |-> "rejected", out |-> Error(e, h)]
                       ELSE [st |-> "resolved", out |-> Value(Undef)]

\* fn() resolves first: record passed, finally removePending.
BodyReturns(h) ==
    /\ InFlight(h)
    /\ results' = StoreSet(results, execs[h].key, "passed", BodyPayload(h), "none")
    /\ pendingExecutions' = RemovePending(pendingExecutions, execs[h].key)
    /\ execs' = [execs EXCEPT ![h].st = "resolved", ![h].out = Value(BodyPayload(h)),
                              ![h].why = "returned", ![h].body = "settled"]
    /\ UNCHANGED <<config, testRegistry, currentFile, callers, hist>>
    /\ UNCHANGED <<graphVars, runVars, queryVars, fileVars>>

\* fn() rejects first.
BodyThrows(h) ==
    /\ InFlight(h)
    /\ Caught(h, "threw")
    /\ execs' = [execs EXCEPT ![h].st = Failed(h, "threw").st, ![h].out = Failed(h, "threw").out,
                              ![h].why = "threw", ![h].body = "settled"]
    /\ UNCHANGED <<config, testRegistry, currentFile, callers, hist>>
    /\ UNCHANGED <<graphVars, runVars, queryVars, fileVars>>

\* The setTimeout callback rejects first; the body keeps running.
TimerFires(h) ==
    /\ InFlight(h)
    /\ Caught(h, "timeout")
    /\ execs' = [execs EXCEPT ![h].st = Failed(h, "timeout").st,
                              ![h].out = Failed(h, "timeout").out,
                              ![h].why = "timeout"]
    /\ UNCHANGED <<config, testRegistry, currentFile, callers, hist>>
    /\ UNCHANGED <<graphVars, runVars, queryVars, fileVars>>

\* A late body whose result is recorded as if it had won the race.
BodyLateWrites(h) ==
    /\ h \in 1..Len(execs)
    /\ execs[h].st # "inflight"
    /\ execs[h].body = "running"
    /\ execs' = [execs EXCEPT ![h].body = "settled"]
    /\ results' = StoreSet(results, execs[h].key, "passed", BodyPayload(h), "none")
    /\ UNCHANGED <<config, testRegistry, currentFile, pendingExecutions, callers, hist>>
    /\ UNCHANGED <<graphVars, runVars, queryVars, fileVars>>

\* The body settles after Promise.race has already settled: nobody listens.
BodyLate(h) ==
    /\ h \in 1..Len(execs)
    /\ execs[h].st # "inflight"
    /\ execs[h].body = "running"
    /\ execs' = [execs EXCEPT ![h].body = "settled"]
    /\ UNCHANGED <<config, testRegistry, currentFile, results, pendingExecutions, callers, hist>>
    /\ UNCHANGED <<graphVars, runVars, queryVars, fileVars>>

\* A suspended frame whose awaited promise has settled resumes.
Ready(c) ==
    /\ Active(c)
    /\ LET f == Top(callers[c].stack)
       IN  \/ f.pc = "ret"
           \/ f.pc = "await" /\ execs[f.h].st # "inflight"

Outcome(f) == IF f.pc = "ret" THEN f.out ELSE execs[f.h].out

Deliver(c) ==
    /\ Ready(c)
    /\ LET stk == callers[c].stack
           o == Outcome(Top(stk))
           rest == Pop(stk)
       IN  callers' = [callers EXCEPT ![c] =
               IF rest = <<>>
               THEN [@ EXCEPT !.st = "done", !.stack = <<>>, !.result = o]
               ELSE IF o.kind = "error"
               THEN [@ EXCEPT !.stack = SetTop(rest, [Top(rest) EXCEPT !.pc = "ret", !.out = o])]
               ELSE [@ EXCEPT !.stack = executeDependencies(rest, Top(rest).i + 1, 1,
                                                             results, pendingExecutions)]]
    /\ UNCHANGED <<config, testRegistry, currentFile, results, pendingExecutions, execs, hist>>
    /\ UNCHANGED <<graphVars, runVars, queryVars, fileVars>>

----------------------------------------------------------------------------
(* The store written from outside the scheduler *)

storeTestResult(key, status) ==
    /\ hist.ext < MaxExt
    /\ results' = StoreSet(results, key, status,
                           IF status = "passed" THEN ExtPayload ELSE Undef,
                           IF status = "failed" THEN "external" ELSE "none")
    /\ hist' = [hist EXCEPT !.ext = @ + 1]
    /\ UNCHANGED <<config, testRegistry, currentFile, pendingExecutions, execs, callers>>
    /\ UNCHANGED <<graphVars, runVars, queryVars, fileVars>>

clearResults ==
    /\ hist.ext < MaxExt
    /\ results # <<>> \/ pendingExecutions # NoPending
    /\ results' = <<>>
    /\ pendingExecutions' = NoPending
    /\ hist' = [hist EXCEPT !.ext = @ + 1]
    /\ UNCHANGED <<config, testRegistry, currentFile, execs, callers>>
    /\ UNCHANGED <<graphVars, runVars, queryVars, fileVars>>


----------------------------------------------------------------------------
(* DependencyGraph.  nodes is a Map and every edge set a Set: both iterate
   in insertion order, so they are sequences without repetition. *)

Ids == {"t1", "t2", "t3"}

EmptyMap == [x \in {} |-> <<>>]

NoVerdict == [op |-> "none", arg |-> "none", threw |-> FALSE, cycle |-> <<>>, order |-> <<>>]

InSeq(x, s) == \E i \in 1..Len(s) : s[i] = x

SetAdd(s, x) == IF InSeq(x, s) THEN s ELSE Append(s, x)

MapGet(m, k) == IF k \in DOMAIN m THEN m[k] ELSE <<>>

MapSet(m, k, v) == [x \in (DOMAIN m) \cup {k} |-> IF x = k THEN v ELSE m[x]]

\* An addTest that gives the id fresh, empty edge sets.
addTestFresh(id) ==
    /\ nodes' = SetAdd(nodes, id)
    /\ edges' = MapSet(edges, id, <<>>)
    /\ reverseEdges' = MapSet(reverseEdges, id, <<>>)

addTest(id) ==
    /\ nodes' = SetAdd(nodes, id)
    /\ edges' = MapSet(edges, id, MapGet(edges, id))
    /\ reverseEdges' = MapSet(reverseEdges, id, MapGet(reverseEdges, id))

addDependency(from, to) ==
    /\ edges' = MapSet(edges, from, SetAdd(MapGet(edges, from), to))
    /\ reverseEdges' = MapSet(reverseEdges, to, SetAdd(MapGet(reverseEdges, to), from))
    /\ nodes' = nodes

\* path.indexOf(node) and path.slice(cycleStart): indexOf gives -1 for an
\* absent element, and slice(-1) the last element.
\* The whole traversal path instead of the part from the repeated node on.
SliceFromStart(path, node) == path

SliceFrom(path, node) ==
    IF InSeq(node, path)
    THEN SubSeq(path, MinOf({i \in 1..Len(path) : path[i] = node}), Len(path))
    ELSE IF path = <<>> THEN <<>> ELSE <<Last(path)>>

RECURSIVE visit(_, _, _, _)
RECURSIVE visitDeps(_, _, _, _, _)

\* st = [visited, stack, cycle]; a non-empty cycle is the thrown
\* CircularDependencyError, which unwinds every loop.
visit(E, node, path, st) ==
    IF node \in st.stack
    THEN [st EXCEPT !.cycle = SliceFrom(path, node) \o <<node>>]
    ELSE IF node \in st.visited
    THEN st
    ELSE LET entered == [st EXCEPT !.visited = @ \cup {node}, !.stack = @ \cup {node}]
             after == visitDeps(E, node, Append(path, node), 1, entered)
         IN  IF after.cycle # <<>> THEN after ELSE [after EXCEPT !.stack = @ \ {node}]

visitDeps(E, node, path, k, st) ==
    IF k > Len(MapGet(E, node))
    THEN st
    ELSE LET after == visit(E, MapGet(E, node)[k], path, st)
         IN  IF after.cycle # <<>> THEN after ELSE visitDeps(E, node, path, k + 1, after)

validateNoCyclesOf(N, E) ==
    LET RECURSIVE Loop(_, _)
        Loop(i, st) ==
            IF i > Len(N) \/ st.cycle # <<>>
            THEN st
            ELSE IF N[i] \in st.visited
                 THEN Loop(i + 1, st)
                 ELSE Loop(i + 1, visit(E, N[i], <<>>, st))
    IN  Loop(1, [visited |-> {}, stack |-> {}, cycle |-> <<>>])

RECURSIVE visitOrder(_, _, _)
RECURSIVE visitOrderDeps(_, _, _, _)

\* The inner visit of topologicalSort and of getExecutionOrder (the two are
\* the same function): st = [visited, result], post-order push.
visitOrder(E, node, st) ==
    IF node \in st.visited
    THEN st
    ELSE LET after == visitOrderDeps(E, node, 1, [st EXCEPT !.visited = @ \cup {node}])
         IN  [after EXCEPT !.result = Append(@, node)]

visitOrderDeps(E, node, k, st) ==
    IF k > Len(MapGet(E, node))
    THEN st
    ELSE visitOrderDeps(E, node, k + 1, visitOrder(E, MapGet(E, node)[k], st))

topologicalSortOf(N, E) ==
    LET v == validateNoCyclesOf(N, E)
        RECURSIVE Loop(_, _)
        Loop(i, st) == IF i > Len(N) THEN st ELSE Loop(i + 1, visitOrder(E, N[i], st))
    IN  IF v.cycle # <<>>
        THEN [threw |-> TRUE, cycle |-> v.cycle, order |-> <<>>]
        ELSE [threw |-> FALSE, cycle |-> <<>>,
              order |-> Loop(1, [visited |-> {}, result |-> <<>>]).result]

\* A getExecutionOrder that emits a node before its dependencies.
getExecutionOrderPre(E, id) ==
    LET RECURSIVE Rev(_)
        Rev(q) == IF q = <<>> THEN <<>> ELSE Append(Rev(Tail(q)), Head(q))
    IN  Rev(visitOrder(E, id, [visited |-> {}, result |-> <<>>]).result)

getExecutionOrderOf(E, id) ==
    visitOrder(E, id, [visited |-> {}, result |-> <<>>]).result

GraphOps == hist.graphOps

AddTest(id) ==
    /\ GraphOps < MaxGraphOps
    /\ addTest(id)
    /\ verdict' = NoVerdict
    /\ hist' = [hist EXCEPT !.graphOps = @ + 1, !.repeats = @ \/ InSeq(id, nodes)]
    /\ UNCHANGED <<config, testRegistry, currentFile, results, pendingExecutions, execs, callers>>
    /\ UNCHANGED <<queryVars, runVars, fileVars>>

AddDependency(from, to) ==
    /\ GraphOps < MaxGraphOps
    /\ addDependency(from, to)
    /\ verdict' = NoVerdict
    /\ hist' = [hist EXCEPT !.graphOps = @ + 1,
                            !.repeats = @ \/ InSeq(to, MapGet(edges, from))]
    /\ UNCHANGED <<config, testRegistry, currentFile, results, pendingExecutions, execs, callers>>
    /\ UNCHANGED <<queryVars, runVars, fileVars>>

\* DependencyGraph.clear().
ClearGraph ==
    /\ GraphOps < MaxGraphOps
    /\ nodes' = <<>>
    /\ edges' = EmptyMap
    /\ reverseEdges' = EmptyMap
    /\ verdict' = NoVerdict
    /\ hist' = [hist EXCEPT !.graphOps = @ + 1]
    /\ UNCHANGED <<config, testRegistry, currentFile, results, pendingExecutions, execs, callers>>
    /\ UNCHANGED <<queryVars, runVars, fileVars>>

ValidateNoCycles ==
    /\ verdict.op # "validateNoCycles"
    /\ LET r == validateNoCyclesOf(nodes, edges)
       IN  verdict' = [op |-> "validateNoCycles", arg |-> "none", threw |-> r.cycle # <<>>,
                       cycle |-> r.cycle, order |-> <<>>]
    /\ UNCHANGED <<nodes, edges, reverseEdges>>
    /\ UNCHANGED <<schedVars, queryVars, runVars, fileVars>>

TopologicalSort ==
    /\ verdict.op # "topologicalSort"
    /\ LET r == topologicalSortOf(nodes, edges)
       IN  verdict' = [op |-> "topologicalSort", arg |-> "none", threw |-> r.threw,
                       cycle |-> r.cycle, order |-> r.order]
    /\ UNCHANGED <<nodes, edges, reverseEdges>>
    /\ UNCHANGED <<schedVars, queryVars, runVars, fileVars>>

GetExecutionOrder(id) ==
    /\ ~(verdict.op = "getExecutionOrder" /\ verdict.arg = id)
    /\ verdict' = [op |-> "getExecutionOrder", arg |-> id, threw |-> FALSE,
                   cycle |-> <<>>, order |-> getExecutionOrderOf(edges, id)]
    /\ UNCHANGED <<nodes, edges, reverseEdges>>
    /\ UNCHANGED <<schedVars, queryVars, runVars, fileVars>>

----------------------------------------------------------------------------
(* Reading the relay and the store: from, status, hasRun, all, normalizeKey *)

NoReply == [op |-> "none", ref |-> <<>>, file |-> <<>>, threw |-> FALSE, err |-> "none",
            status |-> "none", data |-> Undef, flag |-> FALSE, keys |-> <<>>, all |-> <<>>]

StoredKeys == {kD, kFD, kFSD, kFXD, kSD, kSFD}
QueryRefs == {kD, kFD, kFSD}
ContextFiles == {NoFile, <<"e2e", "c.spec.ts">>}
Statuses == {"pending", "running", "passed", "failed", "skipped"}

\* What storeTestResult can be given: a payload only makes a difference to
\* the readers for a passed record.
Writes == {w \in [status : Statuses, data : {Undef, ExtPayload}] :
              w.data = Undef \/ w.status = "passed"}

\* A getAll that keeps every passed entry, with or without data.
getAllPassed(res) ==
    LET RECURSIVE Loop(_, _)
        Loop(i, m) ==
            IF i > Len(res) THEN m
            ELSE Loop(i + 1, IF res[i].status = "passed"
                             THEN MapSet(m, res[i].key, res[i].data)
                             ELSE m)
    IN  Loop(1, <<>>)

\* ResultStore.getAll: iterate the Map, keep passed entries with data.
getAll(res) ==
    LET RECURSIVE Loop(_, _)
        Loop(i, m) ==
            IF i > Len(res) THEN m
            ELSE Loop(i + 1, IF res[i].status = "passed" /\ res[i].data # Undef
                             THEN MapSet(m, res[i].key, res[i].data)
                             ELSE m)
    IN  Loop(1, <<>>)

\* A from that hands out whatever the found record holds, failed or not.
fromOfAnyStatus(res, ref, file) ==
    LET r == findResult(res, ref, file)
    IN  IF ~r.found THEN Error("not executed", 0) ELSE Value(r.data)

\* relay.from: the outcome for the reference ref.
fromOf(res, ref, file) ==
    LET r == findResult(res, ref, file)
    IN  IF ~r.found THEN Error("not executed", 0)
        ELSE IF r.status = "failed" THEN Error("failed", 0)
        ELSE Value(r.data)

hasRunOf(res, ref, file) ==
    LET r == findResult(res, ref, file)
    IN  r.found /\ r.status # "pending" /\ r.status # "running"

\* Nothing has been read or called yet.
Building == reply = NoReply /\ \A c \in Slots : callers[c].st = "idle"

\* storeTestResult(key, status, data): resultStore.set.
SetResult(key, w) ==
    /\ Building
    /\ hist.ext < MaxStoreOps
    /\ results' = StoreSet(results, key, w.status, w.data,
                           IF w.status = "failed" THEN "external" ELSE "none")
    /\ hist' = [hist EXCEPT !.ext = @ + 1]
    /\ UNCHANGED <<config, testRegistry, currentFile, pendingExecutions, execs, callers>>
    /\ UNCHANGED <<graphVars, runVars, queryVars, fileVars>>

From(ref) ==
    /\ Building
    /\ LET o == fromOf(results, ref, currentFile)
       IN  reply' = [NoReply EXCEPT !.op = "from", !.ref = ref, !.threw = o.kind = "error",
                                    !.err = o.err, !.data = o.data]
    /\ UNCHANGED <<schedVars, graphVars, runVars, fileVars>>

Status(ref) ==
    /\ Building
    /\ reply' = [NoReply EXCEPT !.op = "status", !.ref = ref,
                                !.status = findResult(results, ref, currentFile).status]
    /\ UNCHANGED <<schedVars, graphVars, runVars, fileVars>>

HasRun(ref) ==
    /\ Building
    /\ reply' = [NoReply EXCEPT !.op = "hasRun", !.ref = ref,
                                !.flag = hasRunOf(results, ref, currentFile)]
    /\ UNCHANGED <<schedVars, graphVars, runVars, fileVars>>

GetAll ==
    /\ Building
    /\ reply' = [NoReply EXCEPT !.op = "all", !.all = getAll(results)]
    /\ UNCHANGED <<schedVars, graphVars, runVars, fileVars>>

NormalizeKey(ref, file) ==
    /\ Building
    /\ reply' = [NoReply EXCEPT !.op = "normalizeKey", !.ref = ref, !.file = file,
                                !.keys = normalizeKey(ref, file)]
    /\ UNCHANGED <<schedVars, graphVars, runVars, fileVars>>

\* One relay.require on the store as it has been built.
RequireStored(ref) ==
    /\ Building
    /\ Require(ref)

----------------------------------------------------------------------------
(* The result store with its shared file (ResultStore on its own) *)

FileKeys == {kA, kD}

\* The file left by an earlier process, if any.
Files == {<<>>, <<[key |-> kD, status |-> "passed", data |-> ExtPayload, error |-> "none"]>>}

RECURSIVE loadFromSharedStoreAll(_, _)
RECURSIVE loadFromSharedStore(_, _)

\* A load that takes every entry of the file.
loadFromSharedStoreAll(res, file) ==
    IF file = <<>>
    THEN res
    ELSE LET e == Head(file)
         IN  loadFromSharedStoreAll(StoreSet(res, e.key, e.status, e.data, e.error), Tail(file))

\* Every entry of the file is taken unless the store holds a record for its
\* key that is not 'pending'.
loadFromSharedStore(res, file) ==
    IF file = <<>>
    THEN res
    ELSE LET e == Head(file)
             r == IF ~StoreHas(res, e.key) \/ StoreGet(res, e.key).status = "pending"
                  THEN StoreSet(res, e.key, e.status, e.data, e.error)
                  ELSE res
         IN  loadFromSharedStore(r, Tail(file))

\* { ...existing.results, ...local }: the file's entries stay, the store's
\* records are written over them, without their errors.
RECURSIVE saveToSharedStore(_, _)
saveToSharedStore(res, file) ==
    IF res = <<>>
    THEN file
    ELSE saveToSharedStore(Tail(res),
                           StoreSet(file, Head(res).key, Head(res).status, Head(res).data, "none"))

\* The records after a read of key: the file is loaded when key is not held.
Loaded(res, file, use, key) ==
    IF ~StoreHas(res, key) /\ use THEN loadFromSharedStore(res, file) ELSE res

hasOf(res, file, use, key) == StoreHas(Loaded(res, file, use, key), key)

Absent == [key |-> <<>>, status |-> "none", data |-> Undef, error |-> "none"]

getOf(res, file, use, key) ==
    LET r == Loaded(res, file, use, key)
    IN  IF StoreHas(r, key) THEN StoreGet(r, key) ELSE Absent

getPendingOf(pend, key) == IF key \in DOMAIN pend THEN pend[key] ELSE 0

\* What ResultStore.set accepts: any status with any data.
SetArgs == [status : Statuses, data : {Undef, ExtPayload}]

ResultStoreSet(key, w) ==
    /\ hist.ext < MaxStoreOps
    /\ results' = StoreSet(results, key, w.status, w.data,
                           IF w.status = "failed" THEN "external" ELSE "none")
    /\ sharedStore' = IF useSharedStore THEN saveToSharedStore(results', sharedStore)
                                        ELSE sharedStore
    /\ hist' = [hist EXCEPT !.ext = @ + 1]
    /\ reply' = [NoReply EXCEPT !.op = "set", !.ref = key]
    /\ UNCHANGED <<config, testRegistry, currentFile, pendingExecutions, execs, callers>>
    /\ UNCHANGED <<graphVars, runVars, useSharedStore>>

\* set in another worker process whose store holds key alone: its save
\* merges the record into the file.
OtherWorkerSet(key, w) ==
    /\ hist.ext < MaxStoreOps
    /\ useSharedStore
    /\ sharedStore' = saveToSharedStore(StoreSet(<<>>, key, w.status, w.data, "none"), sharedStore)
    /\ hist' = [hist EXCEPT !.ext = @ + 1]
    /\ reply' = [NoReply EXCEPT !.op = "otherSet", !.ref = key]
    /\ UNCHANGED <<config, testRegistry, currentFile, results, pendingExecutions, execs, callers>>
    /\ UNCHANGED <<graphVars, runVars, useSharedStore>>

ResultStoreSetPending(key) ==
    /\ hist.ext < MaxStoreOps
    /\ pendingExecutions' = SetPending(pendingExecutions, key, 1)
    /\ hist' = [hist EXCEPT !.ext = @ + 1]
    /\ reply' = [NoReply EXCEPT !.op = "setPending", !.ref = key]
    /\ UNCHANGED <<config, testRegistry, currentFile, results, execs, callers>>
    /\ UNCHANGED <<graphVars, runVars, fileVars>>

ResultStoreDelete(key) ==
    /\ hist.ext < MaxStoreOps
    /\ results' = StoreDeleteResult(results, key)
    /\ pendingExecutions' = RemovePending(pendingExecutions, key)
    /\ sharedStore' = IF useSharedStore THEN saveToSharedStore(results', sharedStore)
                                        ELSE sharedStore
    /\ hist' = [hist EXCEPT !.ext = @ + 1]
    /\ reply' = [NoReply EXCEPT !.op = "delete", !.ref = key]
    /\ UNCHANGED <<config, testRegistry, currentFile, execs, callers>>
    /\ UNCHANGED <<graphVars, runVars, useSharedStore>>

ResultStoreClear ==
    /\ hist.ext < MaxStoreOps
    /\ results' = <<>>
    /\ pendingExecutions' = NoPending
    /\ sharedStore' = IF useSharedStore THEN <<>> ELSE sharedStore
    /\ hist' = [hist EXCEPT !.ext = @ + 1]
    /\ reply' = [NoReply EXCEPT !.op = "clear"]
    /\ UNCHANGED <<config, testRegistry, currentFile, execs, callers>>
    /\ UNCHANGED <<graphVars, runVars, useSharedStore>>

ResultStoreHas(key) ==
    /\ results' = Loaded(results, sharedStore, useSharedStore, key)
    /\ reply' = [NoReply EXCEPT !.op = "has", !.ref = key,
                                !.flag = hasOf(results, sharedStore, useSharedStore, key)]
    /\ UNCHANGED <<config, testRegistry, currentFile, pendingExecutions, execs, callers, hist>>
    /\ UNCHANGED <<graphVars, runVars, fileVars>>

ResultStoreGet(key) ==
    /\ results' = Loaded(results, sharedStore, useSharedStore, key)
    /\ LET r == getOf(results, sharedStore, useSharedStore, key)
       IN  reply' = [NoReply EXCEPT !.op = "get", !.ref = key, !.flag = r # Absent,
                                    !.status = r.status, !.data = r.data]
    /\ UNCHANGED <<config, testRegistry, currentFile, pendingExecutions, execs, callers, hist>>
    /\ UNCHANGED <<graphVars, runVars, fileVars>>

----------------------------------------------------------------------------
(* The relay fixture of the host runner, and the executor's executeTestFunction *)

kSuiteD == <<"suite", ">", "d">>

\* A test of the host runner: its bare title, its title path without the
\* file (getTestKey) and the references of its `depends` annotations.
Tests ==
    { [title |-> kD, key |-> kSuiteD, deps |-> <<>>],
      [title |-> kA, key |-> kA, deps |-> <<kD>>],
      [title |-> kE, key |-> kE, deps |-> <<kA>>] }

NoTest == [title |-> <<>>, key |-> <<>>, deps |-> <<>>]

\* phase: "idle" between tests, "body" while the test body runs under
\* `await use(relay)`.  last: how the fixture of the last test ended.
\* stored: the keys the running bodies have stored a payload under.
NoRun == [phase |-> "idle", test |-> NoTest, last |-> "none", stored |-> {}, count |-> 0]

\* The first declared dependency whose status is 'failed', or 0.
FailedDep(res, deps, file) ==
    MinOf({i \in 1..Len(deps) : findResult(res, deps[i], file).status = "failed"} \cup {Len(deps) + 1})

\* The fixture up to `await use(relay)`: both keys are marked running, then
\* the statuses of the declared dependencies are looked up.  On a failed
\* dependency the fixture skips the test or throws, and the store stays as
\* the two sets left it.
FixtureSetup(t) ==
    /\ run.phase = "idle"
    /\ run.count < MaxRuns
    /\ LET res == StoreSet(StoreSet(results, t.key, "running", Undef, "none"),
                           t.title, "running", Undef, "none")
           failed == FailedDep(res, t.deps, currentFile) <= Len(t.deps)
       IN  /\ results' = res
           /\ run' = [run EXCEPT !.count = @ + 1,
                                 !.test = t,
                                 !.phase = IF failed THEN "idle" ELSE "body",
                                 !.last = IF ~failed THEN "none"
                                          ELSE IF Policy = "skip" THEN "skipped" ELSE "threw"]
    /\ UNCHANGED <<config, testRegistry, currentFile, pendingExecutions, execs, callers, hist>>
    /\ UNCHANGED <<graphVars, queryVars, fileVars>>

\* `if (resultStore.getStatus(testKey) === 'running')`: the final status is
\* set under both keys, without data.
FinalWrite(res, t, status) ==
    IF StoreGetStatus(res, t.key) = "running"
    THEN StoreSet(StoreSet(res, t.key, status, Undef, "none"), t.title, status, Undef, "none")
    ELSE res

\* The fixture after `await use(relay)`: the body has ended with
\* testInfo.status = status.
FixtureTeardown(status) ==
    /\ run.phase = "body"
    /\ results' = FinalWrite(results, run.test, status)
    /\ run' = [run EXCEPT !.phase = "idle", !.last = "completed",
                          !.stored = @ \ {run.test.key, run.test.title}]
    /\ UNCHANGED <<config, testRegistry, currentFile, pendingExecutions, execs, callers, hist>>
    /\ UNCHANGED <<graphVars, queryVars, fileVars>>

\* Keys whose body is running: the test under the fixture, by its bare title
\* as in the documentation, and the tasks the executor has in flight.
RunningBodies ==
    (IF run.phase = "body" THEN {run.test.title} ELSE {})
        \cup {execs[h].key : h \in {g \in 1..Len(execs) : execs[g].st = "inflight"}}

\* storeTestResult(k, 'passed', v) called by the running body of k.
BodyStores(k) ==
    /\ k \in RunningBodies
    /\ k \notin run.stored
    /\ results' = StoreSet(results, k, "passed", ExtPayload, "none")
    /\ run' = [run EXCEPT !.stored = @ \cup {k}]
    /\ UNCHANGED <<config, testRegistry, currentFile, pendingExecutions, execs, callers, hist>>
    /\ UNCHANGED <<graphVars, queryVars, fileVars>>

\* executeTestFunction(key, fn) up to its return: a pending execution is
\* returned as it is; otherwise key is marked running, fn is called and the
\* promise is registered.
ExecuteTestFunction(key) ==
    /\ key \notin DOMAIN pendingExecutions
    /\ Len(execs) < MaxExecs
    /\ results' = StoreSet(results, key, "running", Undef, "none")
    /\ execs' = Append(execs, [key |-> key, st |-> "inflight", out |-> NoOut,
                               why |-> "none", body |-> "running"])
    /\ pendingExecutions' = SetPending(pendingExecutions, key, Len(execs) + 1)
    /\ UNCHANGED <<config, testRegistry, currentFile, callers, hist>>
    /\ UNCHANGED <<graphVars, queryVars, runVars, fileVars>>

\* What a body can resolve with: nothing, or a value.
Returned(h) == {Undef, BodyPayload(h)}

\* `resultStore.set(key, 'passed', result)`
CompletionWrite(res, key, result) == StoreSet(res, key, "passed", result, "none")

\* fn() resolves with result.
ExecutorReturns(h, result) ==
    /\ InFlight(h)
    /\ results' = CompletionWrite(results, execs[h].key, result)
    /\ pendingExecutions' = RemovePending(pendingExecutions, execs[h].key)
    /\ execs' = [execs EXCEPT ![h].st = "resolved", ![h].out = Value(result),
                              ![h].why = "returned", ![h].body = "settled"]
    /\ run' = [run EXCEPT !.stored = @ \ {execs[h].key}]
    /\ UNCHANGED <<config, testRegistry, currentFile, callers, hist>>
    /\ UNCHANGED <<graphVars, queryVars, fileVars>>

\* fn() rejects: the error is recorded and rethrown.
ExecutorThrows(h) ==
    /\ InFlight(h)
    /\ results' = StoreSet(results, execs[h].key, "failed", Undef, "threw")
    /\ pendingExecutions' = RemovePending(pendingExecutions, execs[h].key)
    /\ execs' = [execs EXCEPT ![h].st = "rejected", ![h].out = Error("threw", h),
                              ![h].why = "threw", ![h].body = "settled"]
    /\ run' = [run EXCEPT !.stored = @ \ {execs[h].key}]
    /\ UNCHANGED <<config, testRegistry, currentFile, callers, hist>>
    /\ UNCHANGED <<graphVars, queryVars, fileVars>>

----------------------------------------------------------------------------

InitSched ==
    /\ config \in [onDependencyFailure : {"skip", "fail"}]
    /\ testRegistry \in Registries
    /\ currentFile = NoFile
    /\ results = <<>>
    /\ pendingExecutions = NoPending
    /\ execs = <<>>
    /\ callers = [c \in Slots |-> Idle]
    /\ hist = [ext |-> 0, graphOps |-> 0, overlap |-> FALSE, reruns |-> FALSE, repeats |-> FALSE]

InitGraph ==
    /\ nodes = <<>>
    /\ edges = EmptyMap
    /\ reverseEdges = EmptyMap
    /\ verdict = NoVerdict

InitQuery == reply = NoReply

InitRun == run = NoRun

\* new ResultStore(): the shared store is off unless it is asked for.
InitFile ==
    /\ useSharedStore = FALSE
    /\ sharedStore = <<>>

Init == InitSched /\ InitGraph /\ InitQuery /\ InitRun /\ InitFile

Next ==
    \/ \E ref \in TestRefs : Require(ref)
    \/ \E ref \in TestRefs : Rerun(ref)
    \/ \E c \in Slots : StartBody(c)
    \/ \E c \in Slots : Deliver(c)
    \/ \E h \in 1..MaxExecs : BodyReturns(h)
    \/ \E h \in 1..MaxExecs : BodyThrows(h)
    \/ \E h \in 1..MaxExecs : TimerFires(h)
    \/ \E k \in ExtKeys, s \in ExtStatuses : storeTestResult(k, s)
    \/ clearResults

Spec == Init /\ [][Next]_vars

\* The dependency graph on its own, with one fixed scheduler configuration.
InitG ==
    /\ InitSched
    /\ config.onDependencyFailure = "skip"
    /\ kD \in DOMAIN testRegistry
    /\ InitGraph
    /\ InitQuery
    /\ InitRun
    /\ InitFile

NextG ==
    \/ \E id \in Ids : AddTest(id)
    \/ \E from \in Ids, to \in Ids : AddDependency(from, to)
    \/ ClearGraph
    \/ ValidateNoCycles
    \/ TopologicalSort
    \/ \E id \in Ids : GetExecutionOrder(id)

SpecGraph == InitG /\ [][NextG]_vars

\* The store written from outside and then read once, with the registry in
\* which only the prefixed cross-file key and its dependent are registered.
InitStore ==
    /\ InitSched
    /\ kFSD \in DOMAIN testRegistry
    /\ InitGraph
    /\ InitQuery
    /\ InitRun
    /\ InitFile

NextStore ==
    \/ \E k \in StoredKeys, w \in Writes : SetResult(k, w)
    \/ \E ref \in QueryRefs : From(ref)
    \/ \E ref \in QueryRefs : Status(ref)
    \/ \E ref \in QueryRefs : HasRun(ref)
    \/ GetAll
    \/ \E ref \in QueryRefs, file \in ContextFiles : NormalizeKey(ref, file)
    \/ \E ref \in QueryRefs : RequireStored(ref)

SpecStore == InitStore /\ [][NextStore]_vars

\* One ResultStore, with or without its shared file, used directly.
InitShared ==
    /\ config = [onDependencyFailure |-> "skip"]
    /\ testRegistry \in Registries
    /\ kD \in DOMAIN testRegistry
    /\ currentFile = NoFile
    /\ useSharedStore \in BOOLEAN
    /\ sharedStore \in Files
    /\ results = IF useSharedStore THEN loadFromSharedStore(<<>>, sharedStore) ELSE <<>>
    /\ pendingExecutions = NoPending
    /\ execs = <<>>
    /\ callers = [c \in Slots |-> Idle]
    /\ hist = [ext |-> 0, graphOps |-> 0, overlap |-> FALSE, reruns |-> FALSE, repeats |-> FALSE]
    /\ InitGraph
    /\ InitQuery
    /\ InitRun

NextShared ==
    \/ \E key \in FileKeys, w \in SetArgs : ResultStoreSet(key, w)
    \/ \E key \in FileKeys, w \in SetArgs : OtherWorkerSet(key, w)
    \/ \E key \in FileKeys : ResultStoreSetPending(key)
    \/ \E key \in FileKeys : ResultStoreDelete(key)
    \/ ResultStoreClear
    \/ \E key \in FileKeys : ResultStoreHas(key)
    \/ \E key \in FileKeys : ResultStoreGet(key)

SpecShared == InitShared /\ [][NextShared]_vars


\* Tasks with several declared dependencies: one of which the first is
\* neither registered nor recorded, and one whose dependency is registered
\* under the cross-file key while the store is written under the bare title.
DepRegistries ==
    { (kA :> <<kU, kE, kD>>) @@ (kE :> <<>>) @@ (kD :> <<>>),
      (kA :> <<kFD>>) @@ (kFD :> <<>>) }

DepRefs == {kA, kD}

InitDeps ==
    /\ config \in [onDependencyFailure : {"skip", "fail"}]
    /\ testRegistry \in DepRegistries
    /\ currentFile = NoFile
    /\ results = <<>>
    /\ pendingExecutions = NoPending
    /\ execs = <<>>
    /\ callers = [c \in Slots |-> Idle]
    /\ hist = [ext |-> 0, graphOps |-> 0, overlap |-> FALSE, reruns |-> FALSE, repeats |-> FALSE]
    /\ InitGraph
    /\ InitQuery
    /\ InitRun
    /\ InitFile

NextDeps ==
    \/ \E ref \in DepRefs : Require(ref)
    \/ \E c \in Slots : StartBody(c)
    \/ \E c \in Slots : Deliver(c)
    \/ \E h \in 1..MaxExecs : BodyReturns(h)
    \/ \E h \in 1..MaxExecs : BodyThrows(h)
    \/ \E h \in 1..MaxExecs : TimerFires(h)
    \/ \E k \in ExtKeys, s \in ExtStatuses : storeTestResult(k, s)

SpecDeps == InitDeps /\ [][NextDeps]_vars

\* The same calls and executions with clearResults between them, and no
\* rerun: only clearResults takes a record or a pending handle away.
NextClear ==
    \/ NextDeps
    \/ clearResults

SpecClear == InitDeps /\ [][NextClear]_vars


\* Tasks whose declared dependencies form a cycle: two tasks that depend on
\* each other, and a task that depends on itself.
CycleRegistries ==
    { (kA :> <<kD>>) @@ (kD :> <<kA>>),
      (kA :> <<kA>>) @@ (kD :> <<>>) }

InitCycle ==
    /\ config \in [onDependencyFailure : {"skip", "fail"}]
    /\ testRegistry \in CycleRegistries
    /\ currentFile = NoFile
    /\ results = <<>>
    /\ pendingExecutions = NoPending
    /\ execs = <<>>
    /\ callers = [c \in Slots |-> Idle]
    /\ hist = [ext |-> 0, graphOps |-> 0, overlap |-> FALSE, reruns |-> FALSE, repeats |-> FALSE]
    /\ InitGraph
    /\ InitQuery
    /\ InitRun
    /\ InitFile

SpecCycle == InitCycle /\ [][NextDeps]_vars


\* rerun and require of a reference that may have a record and no
\* registration: <<d>> is stored from outside and is registered in one
\* registry only.
NextRerun ==
    \/ \E ref \in {kA, kD} : Rerun(ref)
    \/ \E ref \in {kA, kD} : Require(ref)
    \/ \E c \in Slots : StartBody(c)
    \/ \E c \in Slots : Deliver(c)
    \/ \E h \in 1..MaxExecs : BodyReturns(h)
    \/ \E h \in 1..MaxExecs : BodyThrows(h)
    \/ \E k \in ExtKeys, s \in ExtStatuses : storeTestResult(k, s)

SpecRerun == Init /\ [][NextRerun]_vars


\* The tests of one file run one after another by one worker of the host
\* runner, and tasks run by the executor.
InitFixture ==
    /\ config \in [onDependencyFailure : {"skip", "fail"}]
    /\ testRegistry = EmptyMap
    /\ currentFile = <<"e2e", "c.spec.ts">>
    /\ results = <<>>
    /\ pendingExecutions = NoPending
    /\ execs = <<>>
    /\ callers = [c \in Slots |-> Idle]
    /\ hist = [ext |-> 0, graphOps |-> 0, overlap |-> FALSE, reruns |-> FALSE, repeats |-> FALSE]
    /\ InitGraph
    /\ InitQuery
    /\ InitRun
    /\ InitFile

NextFixture ==
    \/ \E t \in Tests : FixtureSetup(t)
    \/ \E status \in {"passed", "failed"} : FixtureTeardown(status)
    \/ \E k \in {kD, kA, kE, kU} : BodyStores(k)
    \/ \E key \in {kU} : ExecuteTestFunction(key)
    \/ \E h \in 1..MaxExecs : \E result \in Returned(h) : ExecutorReturns(h, result)
    \/ \E h \in 1..MaxExecs : ExecutorThrows(h)

SpecFixture == InitFixture /\ [][NextFixture]_vars


\* The scheduler with the event loop running: a timer that was set fires
\* unless the race is already settled, and a continuation whose promise has
\* settled is resumed.  Task bodies are free never to settle.
Fairness ==
    /\ \A h \in 1..MaxExecs : WF_vars(TimerFires(h))
    /\ \A c \in Slots : WF_vars(Deliver(c)) /\ WF_vars(StartBody(c))

\* Calls and executions only: nothing writes the store from outside.  A body
\* that settles after its race is over is followed here; it changes nothing
\* that the scheduler or the store reads.
NextCalls ==
    \/ \E ref \in TestRefs : Require(ref)
    \/ \E ref \in TestRefs : Rerun(ref)
    \/ \E c \in Slots : StartBody(c)
    \/ \E c \in Slots : Deliver(c)
    \/ \E h \in 1..MaxExecs : BodyReturns(h)
    \/ \E h \in 1..MaxExecs : BodyThrows(h)
    \/ \E h \in 1..MaxExecs : TimerFires(h)
    \/ \E h \in 1..MaxExecs : BodyLate(h)

SpecFair == Init /\ [][NextCalls]_vars /\ Fairness

----------------------------------------------------------------------------
(* Properties of the dependency graph *)

DependsOn(x, y) == InSeq(y, MapGet(edges, x))

\* The ids reachable from each id along one or more dependency edges.
ReachPlus ==
    LET R == {e \in Ids \X Ids : DependsOn(e[1], e[2])}
        RECURSIVE Grow(_, _)
        Grow(S, n) ==
            IF n = 0 THEN S
            ELSE Grow(S \cup {e \in Ids \X Ids : \E b \in Ids : <<e[1], b>> \in S /\ <<b, e[2]>> \in R},
                      n - 1)
    IN  Grow(R, Cardinality(Ids))

HasLongCycle == \E x \in Ids, y \in Ids : x # y /\ <<x, y>> \in ReachPlus /\ <<y, x>> \in ReachPlus

Acyclic == \A x \in Ids : <<x, x>> \notin ReachPlus

Validated == verdict.op = "validateNoCycles"

\* C9: validateNoCycles raises whenever the dependency edges contain a
\* directed cycle of length >= 2, and completes without raising whenever the
\* graph is acyclic, for every graph built by addTest and addDependency.
C9_CycleDetectionExact ==
    Validated => /\ HasLongCycle => verdict.threw
                 /\ Acyclic => ~verdict.threw

\* C10: whenever validateNoCycles raises, the reported sequence c0..cn has
\* n >= 1, c0 = cn, and every c(i) depends on c(i+1) in the graph.
C10_ReportedCycleIsReal ==
    (Validated /\ verdict.threw) =>
        LET c == verdict.cycle
        IN  /\ Len(c) >= 2
            /\ c[1] = c[Len(c)]
            /\ \A i \in 1..(Len(c) - 1) : DependsOn(c[i], c[i + 1])

\* A cycle that does not start at the root of the traversal has been reported.
C10_Witness ==
    /\ Validated
    /\ verdict.threw
    /\ Len(verdict.cycle) >= 3
    /\ nodes # <<>>
    /\ nodes[1] # verdict.cycle[1]

Sorted == verdict.op = "topologicalSort"

\* The position of x in the sequence q (0 when absent), and how often it occurs.
Pos(x, q) == IF InSeq(x, q) THEN MinOf({i \in 1..Len(q) : q[i] = x}) ELSE 0

Count(x, q) == Cardinality({i \in 1..Len(q) : q[i] = x})

Before(x, y, q) == Pos(x, q) > 0 /\ Pos(y, q) > 0 /\ Pos(x, q) < Pos(y, q)

\* C11: for every acyclic graph topologicalSort returns an order in which
\* every registered id appears exactly once and, for every edge 'from depends
\* on to', the id 'to' appears before 'from'.
C11_TopologicalOrder ==
    (Sorted /\ Acyclic) =>
        /\ ~verdict.threw
        /\ \A i \in 1..Len(nodes) : Count(nodes[i], verdict.order) = 1
        /\ \A from \in Ids, to \in Ids :
               DependsOn(from, to) => Before(to, from, verdict.order)

\* C12: topologicalSort never returns an order for a graph that contains a
\* dependency cycle; the call raises the cycle error.
C12_NoOrderForCyclicGraph ==
    (Sorted /\ ~Acyclic) => (verdict.threw /\ verdict.cycle # <<>> /\ verdict.order = <<>>)

\* The ids reachable from id along zero or more dependency edges.
Closure(id) == {id} \cup {y \in Ids : <<id, y>> \in ReachPlus}

\* C13: for every acyclic graph and every id, getExecutionOrder(id) returns
\* exactly the ids reachable from id (id included), each once, every
\* dependency before each of its dependents and id last; [id] for an id
\* without dependencies.
C13_ExecutionOrder ==
    (verdict.op = "getExecutionOrder" /\ Acyclic) =>
        LET id == verdict.arg
            q == verdict.order
        IN  /\ {q[i] : i \in 1..Len(q)} = Closure(id)
            /\ \A x \in Closure(id) : Count(x, q) = 1
            /\ \A x \in Closure(id), y \in Closure(id) : DependsOn(x, y) => Before(y, x, q)
            /\ q # <<>> /\ Last(q) = id
            /\ MapGet(edges, id) = <<>> => q = <<id>>

\* The order of three ids asked at an id with two dependencies, one of which
\* depends on the other.
C13_Witness ==
    /\ verdict.op = "getExecutionOrder"
    /\ Acyclic
    /\ Len(verdict.order) = 3
    /\ Len(MapGet(edges, verdict.arg)) = 2
    /\ \E x \in Ids : DependsOn(x, verdict.order[1]) /\ x # verdict.arg

----------------------------------------------------------------------------
(* Properties of the readers of the store *)

Records == {results[i] : i \in 1..Len(results)}

\* C14: getAll() returns exactly the keys whose record is passed with a
\* defined payload, each mapped to that payload; failed, skipped, pending and
\* running records and passed records without payload are left out.
C14_GetAllPassedWithPayload ==
    reply.op = "all" =>
        /\ DOMAIN reply.all = {r.key : r \in {x \in Records : x.status = "passed" /\ x.data # Undef}}
        /\ \A r \in Records :
               (r.status = "passed" /\ r.data # Undef) => reply.all[r.key] = r.data
        /\ \A r \in Records :
               (r.status \in {"failed", "skipped", "pending", "running"} \/ r.data = Undef)
                   => r.key \notin DOMAIN reply.all

\* getAll on a store with a passed record with payload and a passed record
\* without.
C14_Witness ==
    /\ reply.op = "all"
    /\ Cardinality(DOMAIN reply.all) = 1
    /\ \E r \in Records : r.status = "passed" /\ r.data = Undef

\* C15: for a file-qualified reference 'f > t' normalizeKey returns the
\* sequence ['f > t', 't'] without repetition whatever the context file is;
\* for a bare reference t with context file c it returns [t, 'basename(c) > t'].
C15_NormalizeKey ==
    reply.op = "normalizeKey" =>
        LET p == parseTestKey(reply.ref)
        IN  /\ p.hasFile =>
                   /\ reply.keys = <<p.file \o <<">">> \o p.testTitle, p.testTitle>>
                   /\ \A i \in 1..Len(reply.keys), j \in 1..Len(reply.keys) :
                          reply.keys[i] = reply.keys[j] => i = j
            /\ (~p.hasFile /\ reply.file # NoFile) =>
                   reply.keys = <<reply.ref, <<Last(reply.file)>> \o <<">">> \o reply.ref>>

\* The stored key k has the file of the qualified reference ref and a title
\* that ends with ref's title.
PrefixedForm(k, ref) ==
    /\ parseTestKey(k).hasFile
    /\ parseTestKey(k).file = parseTestKey(ref).file
    /\ IsSuffix(parseTestKey(ref).testTitle, parseTestKey(k).testTitle)

\* The stored key k contains the file name of ref and ends with ref's title.
ContainsAndEnds(k, ref) ==
    /\ Includes(k, parseTestKey(ref).file)
    /\ IsSuffix(parseTestKey(ref).testTitle, k)

NoExactRecord(ref) ==
    \A j \in 1..Len(normalizeKey(ref, currentFile)) :
        ~StoreHas(results, normalizeKey(ref, currentFile)[j])

\* A read or a require of ref has answered.
Asked(ref) == reply.ref = ref \/ \E c \in Slots : callers[c].ref = ref

\* What from, status and require for ref have answered is the record r.
AnsweredWith(ref, r) ==
    /\ (reply.op = "status" /\ reply.ref = ref) => reply.status = r.status
    /\ (reply.op = "from" /\ reply.ref = ref) =>
           IF r.status = "failed"
           THEN reply.threw /\ reply.err = "failed"
           ELSE ~reply.threw /\ reply.data = r.data
    /\ \A c \in Slots :
           (callers[c].op = "require" /\ callers[c].ref = ref) =>
               /\ callers[c].snap.status = r.status
               /\ r.status = "passed" =>
                      callers[c].st = "done" /\ callers[c].result = Value(r.data)

\* C16 as stated: a record under a key 'f > p t', with no record under an
\* exact candidate key of 'f > t', is the record that from, status and
\* require find for 'f > t'.
C16_FuzzyFindsRecord ==
    \A ref \in QueryRefs : \A i \in 1..Len(results) :
        ( /\ parseTestKey(ref).hasFile
          /\ PrefixedForm(results[i].key, ref)
          /\ NoExactRecord(ref) )
        => AnsweredWith(ref, results[i])

\* C16, amended: ... and no record inserted earlier has a key that contains
\* f and ends with t; then that record is the one found.
C16_FuzzyFindsFirstRecord ==
    \A ref \in {r \in QueryRefs : Asked(r)} : \A i \in 1..Len(results) :
        ( /\ parseTestKey(ref).hasFile
          /\ PrefixedForm(results[i].key, ref)
          /\ NoExactRecord(ref)
          /\ \A j \in 1..(i - 1) : ~ContainsAndEnds(results[j].key, ref) )
        => AnsweredWith(ref, results[i])

\* from('f.spec.ts > d') has returned the payload of the record stored under
\* 'f.spec.ts > [s] d', the first of two prefixed records.
C16_Witness ==
    /\ reply.op = "from" /\ reply.ref = kFD /\ ~reply.threw
    /\ Len(results) = 2
    /\ results[1].key = kFSD /\ results[1].status = "passed"
    /\ results[1].data = ExtPayload
    /\ results[2].key = kFXD /\ results[2].status = "failed"
    /\ reply.data = ExtPayload

\* C17: a result stored under the bare prefixed title '[s] d' (no file in
\* the stored key) is found by the cross-file reference 'f.spec.ts > d':
\* relay.from on that reference returns the stored payload.
C17_BarePrefixedTitleFound ==
    ( /\ reply.op = "from" /\ reply.ref = kFD
      /\ \E r \in Records : r.key = kSD /\ r.status = "passed" /\ r.data = ExtPayload
      /\ \A r \in Records : r.key = kSD )
    => (~reply.threw /\ reply.data = ExtPayload)

\* C18: from(ref) raises when no record is found for ref, raises when the
\* found record is failed, returns the recorded payload when it is passed,
\* and neither executes a task nor changes the cache.
C18_Answer ==
    reply.op = "from" =>
        LET r == findResult(results, reply.ref, currentFile)
        IN  /\ ~r.found => reply.threw /\ reply.err = "not executed"
            /\ (r.found /\ r.status = "failed") => reply.threw /\ reply.err = "failed"
            /\ (r.found /\ r.status = "passed") => ~reply.threw /\ reply.data = r.data

C18_Step ==
    (reply'.op = "from" /\ reply.op # "from") =>
        /\ results' = results
        /\ pendingExecutions' = pendingExecutions
        /\ execs' = execs
        /\ callers' = callers

C19_HasRunGuardsFrom ==
    (reply.op = "hasRun") =>
        LET r == findResult(results, reply.ref, currentFile)
        IN  /\ reply.flag => fromOf(results, reply.ref, currentFile).kind = "value"
            /\ (~r.found \/ r.status \in {"pending", "running"}) => ~reply.flag

NotFoundRaised(c) ==
    /\ callers[c].st = "done"
    /\ callers[c].result.kind = "error"
    /\ callers[c].result.err = "not found"

RegisteredRef(ref) ==
    \E j \in 1..Len(normalizeKey(ref, currentFile)) :
        normalizeKey(ref, currentFile)[j] \in DOMAIN testRegistry

\* The lookup for ref finds a record that holds a result: passed, failed or
\* skipped.
CachedResult(ref) ==
    /\ findResult(results, ref, currentFile).found
    /\ findResult(results, ref, currentFile).status \in {"passed", "failed", "skipped"}

\* C20: require(ref) raises the not-found error exactly when ref has no
\* registration under any candidate key and no cached result, under both
\* failure policies, and creates no record; it does not raise not-found when
\* a cached result for ref exists.
C20_End ==
    \A c \in Slots :
        callers[c].op = "require" =>
            (NotFoundRaised(c) <=>
                (~RegisteredRef(callers[c].ref) /\ ~CachedResult(callers[c].ref)))

C20_Step ==
    \A c \in Slots :
        (NotFoundRaised(c)' /\ ~NotFoundRaised(c)) =>
            (results' = results /\ pendingExecutions' = pendingExecutions /\ execs' = execs)

C20_RequireNotFound == [](C20_End) /\ [][C20_Step]_vars

----------------------------------------------------------------------------
(* Properties of the scheduler *)

Handles == 1..Len(execs)

\* Executions of key started after the first n.
ExecsSince(key, n) == {h \in Handles : h > n /\ execs[h].key = key}

Done(c) == callers[c].st = "done"

Started(c) == callers[c].st # "idle"

\* Every call so far settled before the next one started, and nothing but
\* the scheduler wrote the store.
Quiet == ~hist.overlap /\ hist.ext = 0

\* C1: two calls for the same registered key without record and without
\* pending handle, the second started before the first resumed from its
\* first await, invoke the task body exactly once in total and settle alike
\* (nothing else touching the store meanwhile, no dependency failing).
C1_SingleFlight ==
    \A c \in Slots, o \in Slots :
        ( /\ c # o
          /\ hist.ext = 0 /\ ~hist.reruns
          /\ \A h \in Handles : execs[h].key # callers[c].key0 => execs[h].why = "returned"
          /\ callers[c].raced
          /\ callers[o].key0 = callers[c].key0
          /\ Done(c) /\ Done(o) )
        => /\ Cardinality(ExecsSince(callers[c].key0, callers[o].execs0)) = 1
           /\ callers[c].result = callers[o].result

\* C2: executeTest(key) called while the pending table holds a handle for key
\* returns that handle: the new frame awaits it, nothing above it is run
\* (no dependency), no body is invoked and the cache is not written.
C2_Step ==
    \A c \in Slots :
        (callers[c].st = "idle" /\ callers'[c].st = "active") =>
            /\ \A p \in 1..Len(callers'[c].stack) :
                   LET f == callers'[c].stack[p]
                   IN  f.key \in DOMAIN pendingExecutions' =>
                           /\ f.pc = "await"
                           /\ f.h = pendingExecutions'[f.key]
                           /\ p = Len(callers'[c].stack)
            /\ (callers'[c].key0 \in DOMAIN pendingExecutions' /\ callers'[c].op = "require") =>
                   /\ execs' = execs
                   /\ results' = results
                   /\ pendingExecutions' = pendingExecutions

C2_PendingHandleReused == [][C2_Step]_vars

\* A call is attached to an execution that was started before the call.
C2_Witness ==
    \E c \in Slots :
        /\ Active(c)
        /\ callers[c].stack[1].pc = "await"
        /\ callers[c].stack[1].h <= callers[c].execs0
        /\ InFlight(callers[c].stack[1].h)

\* C3: when every require settles before the next starts and no rerun,
\* delete, clear or external set intervenes, every task body is invoked at
\* most once; and a require for a key whose own record is passed returns the
\* recorded payload at once, invoking no body.
C3_Once ==
    (Quiet /\ ~hist.reruns) =>
        \A k \in DOMAIN testRegistry : Cardinality(ExecsSince(k, 0)) <= 1

C3_Step ==
    \A c \in Slots :
        ( /\ callers[c].st = "idle"
          /\ Started(c)'
          /\ callers'[c].op = "require"
          /\ StoreHas(results, callers'[c].ref)
          /\ StoreGetStatus(results, callers'[c].ref) = "passed" )
        => /\ Done(c)'
           /\ callers'[c].result = Value(StoreGetData(results, callers'[c].ref))
           /\ execs' = execs
           /\ results' = results

C3_EachTestRunsOnce == [](C3_Once) /\ [][C3_Step]_vars

\* The second of two consecutive requires was answered from the cache.
C3_Witness ==
    /\ Quiet /\ ~hist.reruns
    /\ \A c \in Slots : Done(c) /\ callers[c].op = "require"
    /\ callers[2].snap.status = "passed"
    /\ callers[2].result.kind = "value"
    /\ callers[2].result.data.src = "body"
    /\ callers[2].execs0 = Len(execs)

\* The registered task that executeDependencies runs for the reference dep,
\* if it has to run one: <<k>> for the first candidate key that is registered.
RegisteredFor(dep) ==
    LET cands == normalizeKey(dep, currentFile)
        regs == {j \in 1..Len(cands) : cands[j] \in DOMAIN testRegistry}
    IN  IF regs = {} THEN <<>> ELSE <<cands[MinOf(regs)]>>

\* The record that executeDependencies finds for dep in the store res: the
\* first candidate key with a record, no earlier candidate being registered.
ProbedStatus(dep, res) ==
    LET cands == normalizeKey(dep, currentFile)
        decisive == {j \in 1..Len(cands) : StoreHas(res, cands[j]) \/ cands[j] \in DOMAIN testRegistry}
    IN  IF decisive # {} /\ StoreHas(res, cands[MinOf(decisive)])
        THEN StoreGetStatus(res, cands[MinOf(decisive)])
        ELSE "none"

Deps(key) == {testRegistry[key][i] : i \in 1..Len(testRegistry[key])}

\* A body is invoked in this step.
Invoked(key) == Len(execs') = Len(execs) + 1 /\ execs'[Len(execs')].key = key

\* Only one call has been made, and nothing else wrote the store.
SingleCall == callers[2].st = "idle" /\ hist.ext = 0

\* C4: in a single require(T), T depending on the registered task D and
\* neither cached, D's body is invoked and D's record is passed or failed
\* before T's body is invoked; when both bodies succeed both records end as
\* passed with the payload their bodies returned.
C4_Step ==
    \A T \in DOMAIN testRegistry : \A dep \in Deps(T) :
        (SingleCall /\ Invoked(T) /\ RegisteredFor(dep) # <<>>) =>
            LET D == RegisteredFor(dep)[1]
            IN  /\ ExecsSince(D, 0) # {}
                /\ \A h \in ExecsSince(D, 0) : h < Len(execs') /\ execs[h].st # "inflight"
                /\ StoreGetStatus(results, D) \in {"passed", "failed"}

C4_End ==
    ( /\ SingleCall
      /\ Done(1)
      /\ \A h \in Handles : execs[h].why = "returned" )
    => \A h \in Handles :
           /\ StoreGetStatus(results, execs[h].key) = "passed"
           /\ StoreGetData(results, execs[h].key) = BodyPayload(h)

C4_DependencyFirst == [](C4_End) /\ [][C4_Step]_vars

\* require(a) alone ran d and then a, and both passed.
C4_Witness ==
    /\ SingleCall
    /\ callers[1].op = "require"
    /\ Done(1)
    /\ callers[1].ref = kA
    /\ Len(execs) = 2
    /\ execs[1].key = kD /\ execs[2].key = kA
    /\ \A h \in Handles : execs[h].why = "returned"
    /\ callers[1].result = Value(BodyPayload(2))

\* The call c executes its task (it found no usable record for it) and one
\* of the task's declared dependencies is recorded as failed, no other call
\* having deleted records since.
ExecutesWithFailedDep(c) ==
    /\ Started(c)
    /\ \A o \in Slots \ {c} : callers[o].op # "rerun"
    /\ callers[c].key0 # <<>>
    /\ callers[c].op = "rerun" \/ callers[c].snap.status = "none"
    /\ \E dep \in Deps(callers[c].key0) : ProbedStatus(dep, results) = "failed"

\* C5: under 'fail', a task whose declared dependency is cached as failed, or
\* fails or times out when executed as its dependency, raises: its body is
\* never invoked, and no record and no pending handle is created for its key.
C5_End ==
    (Policy = "fail" /\ Quiet) =>
        \A c \in Slots : ExecutesWithFailedDep(c) =>
            LET A == callers[c].key0
            IN  /\ ExecsSince(A, callers[c].execs0) = {}
                /\ ~StoreHas(results, A)
                /\ A \notin DOMAIN pendingExecutions
                /\ Done(c) => callers[c].result.kind = "error"
                /\ Active(c) => callers[c].stack[1].pc \in {"deps", "ret"}

\* The steps themselves, whatever else is going on: a dependency probed as
\* failed makes the frame throw at once, and an error delivered by a
\* dependency's execution is rethrown by the frame that awaited it.
C5_Step ==
    Policy = "fail" =>
        \A c \in Slots :
            /\ (callers[c].st = "idle" /\ Active(c)') =>
                   \A p \in 1..Len(callers'[c].stack) :
                       LET f == callers'[c].stack[p]
                       IN  ( /\ f.key \notin DOMAIN pendingExecutions'
                             /\ StoreGetStatus(results', f.key) \notin {"passed", "failed"}
                             /\ testRegistry[f.key] # <<>>
                             /\ ProbedStatus(testRegistry[f.key][1], results') = "failed" )
                           => /\ f.pc = "ret"
                              /\ f.out.kind = "error"
                              /\ p = Len(callers'[c].stack)
                              /\ execs' = execs
                              /\ ~StoreHas(results', f.key)
            /\ ( /\ Active(c)
                 /\ callers'[c] # callers[c]
                 /\ Ready(c)
                 /\ Outcome(Top(callers[c].stack)).kind = "error" )
               => /\ execs' = execs /\ results' = results
                  /\ pendingExecutions' = pendingExecutions
                  /\ IF Len(callers[c].stack) = 1
                     THEN Done(c)' /\ callers'[c].result = Outcome(Top(callers[c].stack))
                     ELSE /\ Top(callers'[c].stack).pc = "ret"
                          /\ Top(callers'[c].stack).out = Outcome(Top(callers[c].stack))
                          /\ Len(callers'[c].stack) = Len(callers[c].stack) - 1

C5_FailPolicy == [](C5_End) /\ [][C5_Step]_vars

\* require(a) has raised because d, executed as its dependency, failed.
C5_Witness ==
    /\ Policy = "fail"
    /\ SingleCall
    /\ Done(1)
    /\ callers[1].key0 = kA
    /\ callers[1].result.kind = "error"
    /\ callers[1].result.h = 1
    /\ StoreGetStatus(results, kD) = "failed"
    /\ ~StoreHas(results, kA)

\* C6: under 'skip', a task whose declared dependency is cached as failed, or
\* fails or times out when executed as its dependency, does not raise and has
\* its body invoked; the caller of the failed dependency gets undefined.
C6_End ==
    (config.onDependencyFailure = "skip" /\ Quiet) =>
        \A c \in Slots :
            /\ ExecutesWithFailedDep(c) =>
                   /\ Done(c) => /\ callers[c].result.kind = "value"
                                 /\ Cardinality(ExecsSince(callers[c].key0, callers[c].execs0)) = 1
                   /\ Active(c) => \A p \in 1..Len(callers[c].stack) :
                                       callers[c].stack[p].out.kind # "error"
            /\ ( /\ Done(c)
                 /\ callers[c].key0 # <<>>
                 /\ \A o \in Slots \ {c} : callers[o].op # "rerun"
                 /\ \E h \in ExecsSince(callers[c].key0, callers[c].execs0) :
                        execs[h].why \in {"threw", "timeout"} )
               => callers[c].result = Value(Undef)

C6_Step ==
    config.onDependencyFailure = "skip" =>
        /\ \A h \in Handles :
               (InFlight(h) /\ execs'[h].why \in {"threw", "timeout"}) =>
                   /\ execs'[h].st = "resolved"
                   /\ execs'[h].out = Value(Undef)
        /\ \A c \in Slots :
               Started(c)' => /\ callers'[c].result.kind = "error" => callers'[c].result.err = "not found"
                              /\ \A p \in 1..Len(callers'[c].stack) :
                                     callers'[c].stack[p].out.kind # "error"

C6_SkipPolicy == [](C6_End) /\ [][C6_Step]_vars

\* require(a) ran a's body after d, executed as its dependency, had failed.
C6_Witness ==
    /\ config.onDependencyFailure = "skip"
    /\ SingleCall
    /\ Done(1)
    /\ callers[1].key0 = kA
    /\ Len(execs) = 2
    /\ execs[1].key = kD /\ execs[1].why \in {"threw", "timeout"}
    /\ execs[2].key = kA /\ execs[2].why = "returned"
    /\ StoreGetStatus(results, kD) = "failed"
    /\ callers[1].result = Value(BodyPayload(2))

Awaiting(c, h) == Active(c) /\ Top(callers[c].stack).pc = "await" /\ Top(callers[c].stack).h = h

\* C7: with the timer firing, every execution started by executeTest settles
\* even if its body never does; the timeout records the key as failed with a
\* timeout reason and removes the pending handle, and a caller waiting for the
\* execution is released, with the error under 'fail' and undefined under 'skip'.
C7_Step ==
    /\ \A h \in Handles :
           (InFlight(h) /\ execs'[h].why = "timeout") =>
               /\ StoreGetStatus(results', execs[h].key) = "failed"
               /\ StoreGet(results', execs[h].key).error = "timeout"
               /\ execs[h].key \notin DOMAIN pendingExecutions'
               /\ execs'[h].st # "inflight"
               /\ execs'[h].out = IF Policy = "fail" THEN Error("timeout", h) ELSE Value(Undef)
    /\ \A c \in Slots : \A h \in Handles :
           ( /\ Awaiting(c, h)
             /\ Len(callers[c].stack) = 1
             /\ execs[h].why = "timeout"
             /\ callers'[c] # callers[c] )
           => /\ Done(c)'
              /\ callers'[c].result = IF Policy = "fail" THEN Error("timeout", h) ELSE Value(Undef)

C7_TimeoutLiveness ==
    /\ \A h \in 1..MaxExecs : InFlight(h) ~> (h \in Handles /\ execs[h].st # "inflight")
    /\ \A c \in Slots : \A h \in 1..MaxExecs : Awaiting(c, h) ~> ~Awaiting(c, h)
    /\ [][C7_Step]_vars

\* A caller has been released by a timeout while the body had not settled.
C7_Witness ==
    \E c \in Slots : \E h \in Handles :
        /\ Done(c)
        /\ callers[c].key0 = execs[h].key
        /\ h > callers[c].execs0
        /\ execs[h].why = "timeout"
        /\ execs[h].body = "running"
        /\ StoreGetStatus(results, execs[h].key) = "failed"
        /\ execs[h].key \notin DOMAIN pendingExecutions

\* C8: rerun(ref) of a registered task whose passed record findResult(ref)
\* returns invokes the body exactly once more and resolves with, and caches,
\* the payload of the new execution, not the old one.
C8_Rerun ==
    \A c \in Slots :
        ( /\ Quiet
          /\ Done(c)
          /\ callers[c].op = "rerun"
          /\ callers[c].snap.status = "passed"
          /\ callers[c].snap.key \in DOMAIN testRegistry )
        => LET k == callers[c].snap.key
               new == ExecsSince(k, callers[c].execs0)
           IN  /\ Cardinality(new) = 1
               /\ \A h \in new : execs[h].why = "returned" =>
                      /\ callers[c].result = Value(BodyPayload(h))
                      /\ StoreGetStatus(results, k) = "passed"
                      /\ StoreGetData(results, k) = BodyPayload(h)
               /\ callers[c].result.kind = "value" =>
                      \A h \in Handles : h <= callers[c].execs0 =>
                          callers[c].result.data # BodyPayload(h)

----------------------------------------------------------------------------
(* Properties of the result store *)

\* What has(key), get(key) and getPending(key) would return now.
HasNow(key) == hasOf(results, sharedStore, useSharedStore, key)
GetNow(key) == getOf(results, sharedStore, useSharedStore, key)

C21_Deleted ==
    reply.op = "delete" =>
        /\ ~HasNow(reply.ref)
        /\ GetNow(reply.ref) = Absent
        /\ getPendingOf(pendingExecutions, reply.ref) = 0

C21_Frame ==
    (reply'.op = "delete" /\ hist'.ext # hist.ext) =>
        \A k \in FileKeys \ {reply'.ref} :
            /\ GetNow(k)' = GetNow(k)
            /\ getPendingOf(pendingExecutions, k)' = getPendingOf(pendingExecutions, k)

\* C21: after delete(key), has(key) is false, get(key) and getPending(key) are
\* absent, and the record and the handle of every other key are as they were
\* before, with the shared store enabled or not.
C21_DeleteFrame == []C21_Deleted /\ [][C21_Frame]_vars

----------------------------------------------------------------------------
(* Properties of the scheduler under concurrent calls *)

\* The candidate keys under which executeDependencies looks for dep.
Candidates(dep) == LET c == normalizeKey(dep, currentFile) IN {c[j] : j \in 1..Len(c)}

C22_Step ==
    \A T \in DOMAIN testRegistry : \A dep \in Deps(T) :
        (hist.ext = 0 /\ ~hist.reruns /\ Invoked(T)) =>
            \A k \in Candidates(dep) : StoreGetStatus(results, k) # "running"

\* C22: with require calls only, in any interleaving, the body of a task is
\* not invoked while the record of one of its declared dependencies is
\* 'running'.
C22_RunningDependencyAwaited == [][C22_Step]_vars

\* The registered task run for the i-th declared dependency of T, if any.
RegisteredAt(T, i) == RegisteredFor(testRegistry[T][i])

\* Frame p of call c is, after this step, waiting for a dependency that it
\* was not waiting for before: executeDependencies has just called
\* executeTest for that dependency.
Reached(c, p) ==
    /\ p \in 1..Len(callers'[c].stack)
    /\ callers'[c].stack[p].pc = "deps"
    /\ p \in 1..Len(callers[c].stack) => callers[c].stack[p] # callers'[c].stack[p]

\* In a single call for T, executions of a later dependency come after a
\* settled execution of each earlier registered one.
C23_Order ==
    SingleCall =>
        \A T \in DOMAIN testRegistry : \A i \in 1..Len(testRegistry[T]), j \in 1..Len(testRegistry[T]) :
            (callers[1].key0 = T /\ i < j /\ RegisteredAt(T, i) # <<>> /\ RegisteredAt(T, j) # <<>>) =>
                \A h \in ExecsSince(RegisteredAt(T, j)[1], 0) :
                    \E g \in ExecsSince(RegisteredAt(T, i)[1], 0) : g < h /\ execs[g].st # "inflight"

\* A call that waits in executeDependencies waits for the one dependency it
\* is at.
C23_OneAtATime ==
    \A c \in Slots : \A p \in 1..Len(callers[c].stack) :
        LET f == callers[c].stack[p]
        IN  f.pc = "deps" =>
                /\ f.i \in 1..Len(testRegistry[f.key])
                /\ p < Len(callers[c].stack)
                /\ <<callers[c].stack[p + 1].key>> = RegisteredAt(f.key, f.i)

\* The loop moves on from d(i) only when the execution it awaits for d(i)
\* has settled, and the dependency it then runs has no record at that moment.
C23_Step ==
    \A c \in Slots : \A p \in 1..Len(callers[c].stack) :
        /\ (callers[c].stack[p].pc = "deps"
              /\ (p > Len(callers'[c].stack) \/ callers'[c].stack[p] # callers[c].stack[p])) =>
                /\ p + 1 = Len(callers[c].stack)
                /\ Ready(c)
                /\ p <= Len(callers'[c].stack) =>
                       \/ callers'[c].stack[p].pc = "ret"
                       \/ callers'[c].stack[p].i > callers[c].stack[p].i
        /\ Reached(c, p) =>
                ~StoreHas(results', callers'[c].stack[p + 1].key)

\* C23: the declared dependencies d1..dn of a task are handled in declared
\* order, one at a time: the call waits for d(i) alone, goes on only when
\* d(i) is resolved, probes d(i+1) then, and in a single call every
\* execution of a later dependency follows a settled one of each earlier.
C23_DeclaredOrder == [](C23_Order /\ C23_OneAtATime) /\ [][C23_Step]_vars

\* One require ran e, then d, then a.
C23_Witness ==
    /\ SingleCall
    /\ Done(1)
    /\ Len(testRegistry[kA]) = 3
    /\ Len(execs) = 3
    /\ execs[1].key = kE /\ execs[2].key = kD /\ execs[3].key = kA

\* The status of key in the store, 'absent' when it has no record.
StatusOf(res, key) == IF StoreHas(res, key) THEN StoreGet(res, key).status ELSE "absent"

Terminal == {"passed", "failed", "skipped"}

C24_Step ==
    (hist.ext = 0 /\ ~hist.reruns /\ hist' = hist) =>
        \A k \in DOMAIN testRegistry :
            LET s == StatusOf(results, k)
                t == StatusOf(results', k)
            IN  \/ s = t /\ (s \in Terminal => StoreGet(results', k) = StoreGet(results, k))
                \/ s \in {"absent", "pending"} /\ t = "running"
                \/ s = "running" /\ t \in {"passed", "failed"}

\* C24: while only require calls are made (no rerun, delete, clear or
\* external set), the status of a key moves absent/pending -> running ->
\* passed or failed, and a passed, failed or skipped record is not changed.
C24_StatusMachine == [][C24_Step]_vars

\* This step is a call of rerun, or a write to the store from outside.
RerunOrExternal ==
    \/ hist'.ext # hist.ext
    \/ \E c \in Slots : callers[c].st = "idle" /\ callers'[c].op = "rerun"

\* Frame p of call c belongs to an executeTest call made in this step.
Called(c, p) ==
    /\ p \in 1..Len(callers'[c].stack)
    /\ p \in 1..Len(callers[c].stack) => callers[c].stack[p].key # callers'[c].stack[p].key

\* An executeTest call for key made before now is still on its way to the
\* body, or an execution of key is in flight.
EarlierCall(key) ==
    \/ \E c \in Slots : \E p \in 1..Len(callers[c].stack) :
           callers[c].stack[p].key = key /\ callers[c].stack[p].pc \in {"deps", "start"}
    \/ \E h \in Handles : execs[h].key = key /\ execs[h].st = "inflight"

\* The record of key is failed, written by the catch block of an execution
\* (the body threw, or the timer fired).
FailedByExecution(res, key) ==
    /\ StatusOf(res, key) = "failed"
    /\ StoreGet(res, key).error \in {"threw", "timeout"}

C25_Step ==
    /\ \A c \in Slots : \A p \in 1..Len(callers'[c].stack) :
           (Called(c, p) /\ FailedByExecution(results', callers'[c].stack[p].key)) =>
               /\ callers'[c].stack[p].pc = "ret"
               /\ p = Len(callers'[c].stack)
               /\ callers'[c].stack[p].out =
                      IF config.onDependencyFailure = "fail" THEN Error("previously failed", 0)
                                                             ELSE Value(Undef)
    /\ \A k \in DOMAIN testRegistry :
           (FailedByExecution(results, k) /\ ~EarlierCall(k) /\ ~RerunOrExternal) =>
               /\ StoreGet(results', k) = StoreGet(results, k)
               /\ ~Invoked(k)
               /\ ~EarlierCall(k)'

\* C25: an executeTest call made while the record of its key is failed (the
\* body threw or timed out) returns at once (undefined under 'skip', the error under 'fail'); and
\* while a record is failed, with no call made before the failure still
\* under way, no step other than a rerun or an external write invokes the
\* body, changes the record, or starts a call that could.
C25_NoRetry == [][C25_Step]_vars

\* A require made after the key failed has settled without a new execution.
C25_Witness ==
    \E c \in Slots :
        /\ Done(c)
        /\ callers[c].op = "require"
        /\ callers[c].key0 # <<>>
        /\ callers[c].snap.status = "failed"
        /\ callers[c].execs0 = Len(execs)
        /\ \E h \in Handles : execs[h].key = callers[c].key0 /\ execs[h].why \in {"threw", "timeout"}
        /\ hist.ext = 0 /\ ~hist.reruns

C27_HandleHeld ==
    (hist.ext = 0 /\ ~hist.reruns) =>
        \A h \in Handles :
            InFlight(h) =>
                /\ execs[h].key \in DOMAIN pendingExecutions
                /\ pendingExecutions[execs[h].key] = h

\* Execution h lost the race to the timer and its body has settled since.
LateBody(h) ==
    /\ h \in Handles
    /\ execs[h].why = "timeout"
    /\ execs[h].body = "settled"

\* C28 as stated: after an execution timed out and its abandoned body later
\* completed, the record of the key becomes passed with the body's payload.
C28_LateSuccessRewrites ==
    \A h \in 1..MaxExecs :
        LateBody(h) ~> (/\ h \in Handles
                        /\ StatusOf(results, execs[h].key) = "passed"
                        /\ StoreGetData(results, execs[h].key) = BodyPayload(h))

C28_Step ==
    \A h \in Handles :
        (execs[h].why = "timeout" /\ execs[h].body = "running" /\ execs'[h].body = "settled") =>
            /\ results' = results
            /\ pendingExecutions' = pendingExecutions
            /\ callers' = callers

C28_End ==
    \A h \in Handles :
        (LateBody(h) /\ ExecsSince(execs[h].key, 0) = {h} /\ ~hist.reruns) =>
            /\ StatusOf(results, execs[h].key) = "failed"
            /\ StoreGet(results, execs[h].key).error = "timeout"
            /\ StoreGetData(results, execs[h].key) # BodyPayload(h)

\* C28: the completion of a body whose execution has timed out changes
\* neither the store nor any caller; with no other execution and no rerun of
\* the key its record stays failed with the timeout error.
C28_LateBodyIgnored == [](C28_End) /\ [][C28_Step]_vars

\* The caller has been answered after the timeout, and the body has settled
\* afterwards, the record still being failed.
C28_Witness ==
    \E h \in Handles :
        /\ LateBody(h)
        /\ StatusOf(results, execs[h].key) = "failed"
        /\ \E c \in Slots : Done(c) /\ callers[c].key0 = execs[h].key

\* No candidate key of dep is registered or has a record.
Unresolved(dep, res) ==
    \A k \in Candidates(dep) : k \notin DOMAIN testRegistry /\ ~StoreHas(res, k)

\* No executeTest call, suspended or settled, carries the error of a
\* dependency that was not found.
C29_NoRaise ==
    \A c \in Slots :
        /\ \A p \in 1..Len(callers[c].stack) : callers[c].stack[p].out.err # "not found"
        /\ callers[c].key0 # <<>> => callers[c].result.err # "not found"

\* A single require of T, all bodies returning, ends with T's payload after
\* running every registered dependency and T itself.
C29_End ==
    \A T \in DOMAIN testRegistry :
        ( /\ SingleCall
          /\ Done(1)
          /\ callers[1].op = "require"
          /\ callers[1].key0 = T
          /\ \E i \in 1..Len(testRegistry[T]) : Unresolved(testRegistry[T][i], results)
          /\ \A h \in Handles : execs[h].why = "returned" )
        => /\ callers[1].result.kind = "value"
           /\ ExecsSince(T, 0) # {}
           /\ callers[1].result = Value(BodyPayload(Len(execs)))
           /\ \A i \in 1..Len(testRegistry[T]) :
                  RegisteredAt(T, i) # <<>> => ExecsSince(RegisteredAt(T, i)[1], 0) # {}

\* C29: a declared dependency none of whose candidate keys is registered or
\* recorded raises nothing under either policy: the remaining dependencies
\* are run and the body of the dependent task is invoked.
C29_UnresolvedTolerated == C29_End /\ C29_NoRaise

\* Under the 'fail' policy, require(a) has skipped u, run e and d, and a.
C29_Witness ==
    /\ SingleCall
    /\ Done(1)
    /\ config.onDependencyFailure = "fail"
    /\ callers[1].key0 = kA
    /\ Unresolved(kU, results)
    /\ testRegistry[kA][1] = kU
    /\ Len(execs) = 3
    /\ callers[1].result = Value(BodyPayload(3))

C30_Step ==
    \A c \in Slots : \A p \in 1..Len(callers'[c].stack) :
        Reached(c, p) =>
            LET f == callers'[c].stack[p]
            IN  \A k \in Candidates(testRegistry[f.key][f.i]) : ~StoreHas(results', k)

\* C30: executeDependencies calls executeTest for a declared dependency only
\* when none of the dependency's candidate keys has a record.
C30_CacheBeforeRegistry == [][C30_Step]_vars

----------------------------------------------------------------------------
(* Properties of the key resolver and of the graph's maps *)

\* from, status and require for ref have found nothing.
AnsweredNotFound(ref) ==
    /\ (reply.op = "status" /\ reply.ref = ref) => reply.status = "pending"
    /\ (reply.op = "from" /\ reply.ref = ref) => reply.threw /\ reply.err = "not executed"
    /\ \A c \in Slots :
           (callers[c].op = "require" /\ callers[c].ref = ref) => callers[c].snap = NoSnap

\* The stored key at position i matches the qualified reference ref.
MatchesAt(i, ref) == PrefixedForm(results[i].key, ref) \/ ContainsAndEnds(results[i].key, ref)

\* What the lookup has answered for every reference asked for.
C31_Answer ==
    \A ref \in {r \in QueryRefs : Asked(r)} :
        LET cands == normalizeKey(ref, currentFile)
            present == {j \in 1..Len(cands) : StoreHas(results, cands[j])}
            matching == {i \in 1..Len(results) : MatchesAt(i, ref)}
        IN  /\ present # {} =>
                   \A j \in present :
                       (\A l \in present : j <= l) => AnsweredWith(ref, StoreGet(results, cands[j]))
            /\ (present = {} /\ parseTestKey(ref).hasFile /\ matching # {}) =>
                   \A i \in matching :
                       (\A l \in matching : i <= l) => AnsweredWith(ref, results[i])
            /\ (present = {} /\ (~parseTestKey(ref).hasFile \/ matching = {})) =>
                   AnsweredNotFound(ref)

\* C31: the lookup answers with the record of the first candidate key (in
\* normalizeKey order) that has a record; with no candidate key recorded and
\* a reference that carries a file, with the earliest-inserted matching
\* record; and otherwise with not found, status pending.
C31_LookupPrecedence == []C31_Answer

\* status('f.spec.ts > d') has answered with the record under the qualified
\* key, stored after a record of another status under the bare title.
C31_Witness ==
    /\ reply.op = "status" /\ reply.ref = kFD
    /\ Len(results) = 2
    /\ results[1].key = kD /\ results[2].key = kFD
    /\ results[1].status # results[2].status
    /\ reply.status = results[2].status

getDependencies(id) == MapGet(edges, id)
getDependents(id) == MapGet(reverseEdges, id)

C32_Inverse ==
    \A a \in Ids, b \in Ids : InSeq(b, getDependencies(a)) <=> InSeq(a, getDependents(b))

C32_Step ==
    /\ \A id \in Ids :
           (InSeq(id, nodes) /\ hist'.graphOps # hist.graphOps /\ addTest(id)) =>
               edges' = edges /\ reverseEdges' = reverseEdges
    /\ \A a \in Ids, b \in Ids :
           (InSeq(b, getDependencies(a)) /\ hist'.graphOps # hist.graphOps /\ addDependency(a, b)) =>
               edges' = edges /\ reverseEdges' = reverseEdges

\* C32: after any sequence of addTest, addDependency and clear, b is among
\* the dependencies of a exactly when a is among the dependents of b; and
\* adding a test id or an edge that is already there changes neither map.
C32_EdgeMapsInverse == [](C32_Inverse) /\ [][C32_Step]_vars

\* A test with an edge was added again, and the edge is still there in both
\* maps.
C32_Witness ==
    /\ hist.repeats
    /\ \E a \in Ids, b \in Ids :
           /\ a # b
           /\ InSeq(a, nodes)
           /\ InSeq(b, getDependencies(a))
           /\ InSeq(a, getDependents(b))
           /\ hist.graphOps = 3
           /\ Len(nodes) = 1
           /\ \A x \in Ids : Len(getDependencies(x)) = (IF x = a THEN 1 ELSE 0)

\* The id lies on a dependency cycle or reaches one.
ReachesCycle(id) ==
    \E x \in Ids : <<x, x>> \in ReachPlus /\ (x = id \/ <<id, x>> \in ReachPlus)

\* C33: getExecutionOrder(id) for an id that lies on or reaches a dependency
\* cycle fails with a cycle error and returns no sequence.
C33_CyclicOrderRejected ==
    (verdict.op = "getExecutionOrder" /\ InSeq(verdict.arg, nodes) /\ ReachesCycle(verdict.arg)) =>
        verdict.threw /\ verdict.order = <<>>

----------------------------------------------------------------------------
(* Properties of the records *)

WellFormed(r) ==
    /\ r.data # Undef => r.status = "passed"
    /\ r.error # "none" => r.status = "failed"

\* C34: in every state of the store a record carries a payload only if it is
\* passed and a failure reason only if it is failed.
C34_RecordShape == \A i \in 1..Len(results) : WellFormed(results[i])

\* A read of reply'.ref that reloads the file.
Reloads ==
    /\ reply'.op \in {"has", "get"}
    /\ useSharedStore
    /\ ~StoreHas(results, reply'.ref)

KeptLocally(key) ==
    (StoreHas(results, key) /\ StoreGet(results, key).status # "pending") =>
        StoreHas(results', key) /\ StoreGet(results', key) = StoreGet(results, key)

TakenFromFile(key) ==
    (StoreHas(sharedStore, key) /\
     (~StoreHas(results, key) \/ StoreGet(results, key).status = "pending")) =>
        StoreHas(results', key) /\ StoreGet(results', key) = StoreGet(sharedStore, key)

C35_Step == Reloads => \A key \in FileKeys : KeptLocally(key) /\ TakenFromFile(key)

\* C35: a reload of the shared store keeps every local record whose status is
\* not 'pending' exactly as it was, and the keys that were absent or
\* 'pending' locally take the file's entries.
C35_LocalWins == [][C35_Step]_vars

\* After a read of the absent <<a>> reloaded the file: the local record of
\* <<d>> has another status than the file's entry and is not 'pending'.
C35_Witness ==
    /\ reply.op \in {"has", "get"}
    /\ reply.ref = kA
    /\ useSharedStore
    /\ ~StoreHas(results, kA)
    /\ StoreHas(results, kD)
    /\ StoreHas(sharedStore, kD)
    /\ StoreGet(results, kD).status \in {"running", "failed", "skipped"}
    /\ StoreGet(sharedStore, kD).status = "passed"

----------------------------------------------------------------------------
(* Properties of the scheduler on cyclic declarations *)

\* The chain of nested executeTest calls of caller c holds every key once.
NoReentry(c) ==
    \A i, j \in 1..Len(callers[c].stack) :
        callers[c].stack[i].key = callers[c].stack[j].key => i = j

\* C36: require(T) terminates whatever the declared dependencies are: the
\* chain of nested executeTest calls never comes back to a task that is
\* already on it.  The calls of one chain follow each other without an await
\* and write nothing, so a task met again is met again without end.
C36_RequireTerminates == \A c \in Slots : NoReentry(c)

----------------------------------------------------------------------------
(* Properties of rerun *)

\* Call c is a rerun that raises not-found in this step.
RerunNotFound(c) ==
    /\ callers[c].st = "idle"
    /\ callers'[c].st = "done"
    /\ callers'[c].op = "rerun"
    /\ callers'[c].result = Error("not found", 0)

KeepsRecordsOf(ref) ==
    LET cands == normalizeKey(ref, currentFile)
    IN  \A i \in 1..Len(cands) :
            StoreHas(results, cands[i]) =>
                /\ StoreHas(results', cands[i])
                /\ StoreGet(results', cands[i]).status = StoreGet(results, cands[i]).status
                /\ StoreGet(results', cands[i]).data = StoreGet(results, cands[i]).data

C37_Step == \A c \in Slots : RerunNotFound(c) => KeepsRecordsOf(callers'[c].ref)

\* C37: a rerun that raises not-found, because no candidate key of its
\* reference is registered, leaves every record cached for the reference as
\* it was.
C37_FailedRerunKeepsCache == [][C37_Step]_vars

----------------------------------------------------------------------------
(* Properties of the relay fixture and of the executor *)

\* The fixture skips its test in this step.
SkipStep == run.phase = "idle" /\ run'.count = run.count + 1 /\ run'.last = "skipped"

C38_Step ==
    SkipStep =>
        /\ run'.phase # "body"
        /\ ~StoreHas(results', run'.test.key) \/ StoreGetStatus(results', run'.test.key) = "skipped"

\* C38: when the fixture skips a test because a declared dependency has
\* failed, the body is not run and the test's own record is absent or
\* skipped when the fixture returns, not running.
C38_SkippedNotRunning == [][C38_Step]_vars

\* The body of run.test, or the execution h, ends in this step.
FixtureEnds == run.phase = "body" /\ run'.phase = "idle"
ExecutionEnds(h) == InFlight(h) /\ execs'[h].st = "resolved"

KeepsPayload(k) == k \in run.stored => StoreGetData(results', k) = ExtPayload

C39_Step ==
    /\ FixtureEnds => KeepsPayload(run.test.title)
    /\ \A h \in Handles : (ExecutionEnds(h) /\ execs'[h].out = Value(Undef)) => KeepsPayload(execs[h].key)

\* C39: the payload a body has stored with storeTestResult(k, 'passed', v) is
\* the payload of k after the fixture's final status write, and after the
\* executor's completion write for a body that returns nothing.
C39_StoredPayloadSurvives == [][C39_Step]_vars

----------------------------------------------------------------------------
(* Properties of clearResults *)

\* The store as clear() leaves it.
Cleared == results = <<>> /\ pendingExecutions = NoPending

\* No task body is invoked and nothing is stored from outside in this step.
NothingNew == Len(execs') = Len(execs) /\ hist'.ext = hist.ext

C40_Step == (Cleared /\ NothingNew) => (results' = <<>> /\ pendingExecutions' = NoPending)

\* C40: once cleared, the cache and the pending table stay empty until a
\* new execution is started or a new result is stored: an execution that was
\* in flight at clear() writes nothing when it settles.
C40_ClearIsDurable == [][C40_Step]_vars

====
